---- MODULE Spec2Model ----
(***************************************************************************)
(* The chat-answering pipeline of valkompass-ai: getGeminiChatResponse     *)
(* (src/lib/gemini-service.ts) with the embedding call, the knowledge-base *)
(* retrieval (src/lib/knowledge-base-service.ts), the analytics calls      *)
(* (src/lib/posthog.ts) and the module-level rolling chatHistory.          *)
(*                                                                         *)
(* Strings are sequences of tokens; a token is a piece of text, and the    *)
(* tokens " " and "\n" are the white space and the line break.  Optional   *)
(* values are <<>> (null / undefined) or <<v>>.                            *)
(***************************************************************************)
EXTENDS Integers, Sequences, FiniteSets, TLC

(* ------------------------------ bounds --------------------------------- *)

\* getGeminiChatResponse calls made in one run, one call at a time
MaxCalls == 3

\* getGeminiChatResponse calls made in one run of concurrent callers
WindowCalls == 7

\* segments of a context given to formatContextForPrompt
MaxSegments == 2

\* per-query retrieval records given to the merge
MaxRecords == 3

\* tokens of a reply of the query-generation model
MaxReplyTokens == 7

\* days on which the requests to the middleware are made
MaxDays == 2

\* words of a User-Agent given to getUserAgentInfo
MaxWords == 3

\* token counts tried on each side of 0 and of the long-context limit
TokenSpread == 2

\* messages given to formatChatHistory
MaxMessages == 3

\* largest maxLength given to formatChatHistory
MaxLength == 30

\* parliamentary sessions given to fetchVotesForPoliticianConcurrently
MaxSessions == 12

\* length of the repeating pattern of what happens to the sessions
PatternLength == 2

(* ------------------------------ strings -------------------------------- *)

NL == "\n"

IsSpace(t) == t \in {" ", NL}

RECURSIVE trimStart(_)
trimStart(s) ==
  IF s # <<>> /\ IsSpace(Head(s)) THEN trimStart(Tail(s)) ELSE s

RECURSIVE trimEnd(_)
trimEnd(s) ==
  IF s # <<>> /\ IsSpace(s[Len(s)]) THEN trimEnd(SubSeq(s, 1, Len(s) - 1)) ELSE s

\* String.prototype.trim
trim(s) == trimEnd(trimStart(s))

\* String.prototype.includes, for a needle that is one token
includes(s, needle) == \E i \in 1..Len(s) : s[i] = needle

Null == <<>>
Some(v) == <<v>>

(* ------------------------------ prompt.ts ------------------------------ *)

SYSTEM_INSTRUCTION == "SYSTEM_INSTRUCTION"
SYSTEM_INSTRUCTION_NO_CONTEXT == "SYSTEM_INSTRUCTION_NO_CONTEXT"

(* ------------------------ formatContextForPrompt ----------------------- *)

\* `seg.segmentPage || 'N/A'`: page 0 stands for a page that is 0 or undefined
PageText(seg) == IF seg.segmentPage # 0 THEN ToString(seg.segmentPage) ELSE "N/A"

\* the source attribution of one segment; publicUrl <<>> is '' or undefined
sourceInfo(seg) ==
  IF seg.publicUrl # <<>>
    THEN <<"(Source URL: ">> \o seg.publicUrl \o <<", Document: ">> \o seg.documentPath
           \o <<", Page: ", PageText(seg), ")">>
    ELSE <<"(Source Document: ">> \o seg.documentPath
           \o <<", Page: ", PageText(seg), ")">>

\* the numbering starting at 0: `${index}`
segmentEntry_ZeroBased(seg, index) ==
  <<"  ", ToString(index), ". Text: \"">> \o seg.segmentText \o <<"\" ">>
    \o sourceInfo(seg) \o <<NL>>

\* the text appended for the segment at position index + 1
segmentEntry(seg, index) ==
  <<"  ", ToString(index + 1), ". Text: \"">> \o seg.segmentText \o <<"\" ">>
    \o sourceInfo(seg) \o <<NL>>

RECURSIVE segmentEntries(_, _)
segmentEntries(segments, index) ==
  IF index >= Len(segments) THEN <<>>
  ELSE segmentEntry(segments[index + 1], index) \o segmentEntries(segments, index + 1)

formatContextForPrompt(context) ==
  <<"Relevant Topic: ">> \o context.topicName \o <<NL, "Description: ">>
    \o context.topicDescription \o <<NL, NL>>
    \o (IF Len(context.segments) > 0
          THEN <<"Relevant Segments from Documents:", NL>>
                 \o segmentEntries(context.segments, 0)
          ELSE <<>>)

(* ------------------------------ state ---------------------------------- *)

VARIABLES
  chatHistory,  \* gemini-service.ts: the module-level history, model-visible
  driver,       \* knowledge-base-service.ts: TRUE once the Neo4j driver exists
  calls,        \* the getGeminiChatResponse calls in flight
  issued,       \* number of calls made so far
  completed,    \* the exchanges whose LLM answer was returned, in completion order
  env,          \* what the callers send and which services can fail in this run
  extract,      \* commands/extract-parties.ts: the run of fetchVotesForPoliticianConcurrently
  route,        \* app/api/chat/route.ts: the request in the wrapped handler, <<>> in other runs
  fn,           \* the function applied on its own in this run, "" in a run of the service
  arg,          \* its argument
  ret           \* its result, <<>> until it is applied

vars == <<chatHistory, driver, calls, issued, completed, env, extract, route, fn, arg, ret>>

(* ------------------------------ errors --------------------------------- *)

\* `new Error(message)`
Error(message) == [isError |-> TRUE, message |-> message]

\* a thrown value that is no Error instance
NonError == [isError |-> FALSE, message |-> <<>>]

EmptyTextError == Error(<<"Cannot generate embedding for empty text.">>)
EmbeddingError == Error(<<"Failed to generate text embedding via OpenAI.">>)
DriverError == Error(<<"Could not establish connection with ", "Neo4j", " database.">>)
KBError == Error(<<"Failed to retrieve context from knowledge base.">>)
CaptureError == Error(<<"PostHog capture failed">>)

\* what chat.sendMessage may throw
LLMError == Error(<<"[GoogleGenerativeAI Error]: fetch failed">>)

OPENAI_KEY_RESPONSE == <<"OpenAI API key is not configured correctly. Please check server logs.">>
NEO4J_RESPONSE == <<"Could not connect to the knowledge base. Please check server logs.">>
GENERIC_RESPONSE ==
  <<"Sorry, I encountered an error trying to answer your question. Please try again later.">>

ErrorResponses == {OPENAI_KEY_RESPONSE, NEO4J_RESPONSE, GENERIC_RESPONSE}

(* ------------------------------ posthog.ts ----------------------------- *)

Event(name, success, aiResponse) ==
  [name |-> name, success |-> success, aiResponse |-> aiResponse]

\* trackEvent without its try/catch: a throwing capture propagates
trackEvent_Rethrows(event, captureThrows) ==
  [emitted |-> IF captureThrows THEN <<>> ELSE <<event>>, threw |-> captureThrows]

\* trackEvent: client.capture inside try/catch; a throwing capture is logged and
\* swallowed.  emitted: the events captured; threw: whether trackEvent itself throws.
trackEvent(event, captureThrows) ==
  [emitted |-> IF captureThrows THEN <<>> ELSE <<event>>, threw |-> FALSE]

\* the event with a success flag that is always true
trackChatInteraction_SuccessTrue(properties, captureThrows) ==
  trackEvent([name |-> "chat_interaction", success |-> TRUE,
              aiResponse |-> properties.aiResponse,
              retrieval_success |-> properties.retrievalSuccess],
             captureThrows)

\* trackChatInteraction: the 'chat_interaction' event given to trackEvent
trackChatInteraction(properties, captureThrows) ==
  trackEvent([name |-> "chat_interaction", success |-> properties.success,
              aiResponse |-> properties.aiResponse,
              retrieval_success |-> properties.retrievalSuccess],
             captureThrows)

\* `if (distinctId) { await track...(distinctId, ...) }`
trackIfId(distinctId, event, captureThrows) ==
  IF distinctId # "" THEN trackEvent(event, captureThrows)
  ELSE [emitted |-> <<>>, threw |-> FALSE]

(* --------------------------- openai-service.ts ------------------------- *)

\* getOpenAIEmbedding: [events, thrown]; thrown is <<>> when the embedding is returned
getOpenAIEmbedding(text, distinctId, apiOk, captureThrows) ==
  IF text = <<>> \/ trim(text) = <<>>
    THEN [events |-> <<>>, thrown |-> Some(EmptyTextError)]
  ELSE
    LET okTrack == trackIfId(distinctId, Event("embedding_call", TRUE, <<>>), captureThrows)
        failTrack == trackIfId(distinctId, Event("embedding_call", FALSE, <<>>), captureThrows)
    IN IF apiOk /\ ~okTrack.threw
         THEN [events |-> okTrack.emitted, thrown |-> Null]
       ELSE IF failTrack.threw
         THEN [events |-> <<>>, thrown |-> Some(CaptureError)]
       ELSE [events |-> failTrack.emitted, thrown |-> Some(EmbeddingError)]

(* ------------------------ knowledge-base-service.ts -------------------- *)

\* the topic names and descriptions stored in the graph; <<>> is an empty name
PlainTopic == [name |-> <<"Skola">>, description |-> <<"Utbildning">>]

TopicRows == {PlainTopic, [name |-> <<>>, description |-> <<"Utbildning">>]}

PdfRow ==
  [documentPath |-> <<"m.pdf">>, segmentType |-> "pdf", segmentText |-> <<"x">>,
   segmentPage |-> 3, publicUrl |-> <<"/kb/m.pdf">>]

WebRow ==
  [documentPath |-> <<"s.json">>, segmentType |-> "web", segmentText |-> <<"y">>,
   segmentPage |-> 0, publicUrl |-> <<>>]

\* what the segment lookup may return, best score first
SegmentResults == {<<>>, <<PdfRow>>, <<PdfRow, WebRow>>}

APP_DOMAIN == <<"https://valkompass.ai">>

\* segmentsResult.records.map(...)
toSegment(record) ==
  [documentPath |-> record.documentPath,
   segmentText |-> record.segmentText,
   segmentPage |-> IF record.segmentType = "pdf" THEN record.segmentPage ELSE 0,
   publicUrl |-> IF record.segmentType = "pdf" /\ record.publicUrl # <<>>
                   THEN APP_DOMAIN \o record.publicUrl
                   ELSE record.publicUrl]

toSegments(records) == [i \in 1..Len(records) |-> toSegment(records[i])]

\* the RetrievedContext built from the two lookups
RetrievedContext(topic, records) ==
  [topicName |-> topic.name,
   topicDescription |-> topic.description,
   segments |-> toSegments(records)]

\* the catch block of getContextFromKB: track the failure, then throw
kbCatch(distinctId, captureThrows) ==
  LET t == trackIfId(distinctId, Event("knowledge_base_query", FALSE, <<>>), captureThrows)
  IN IF t.threw THEN [events |-> <<>>, thrown |-> Some(CaptureError)]
     ELSE [events |-> t.emitted, thrown |-> Some(KBError)]

\* what session.run gives: it rejects, or it resolves with records
Rejected == [throws |-> TRUE, records |-> <<>>]
Resolved(records) == [throws |-> FALSE, records |-> records]

\* the services that can fail in this run
CanFail(service) == service \in env.failures

\* whether an outcome drawn for a service is one it can have in this run
Outcomes(service) == IF CanFail(service) THEN BOOLEAN ELSE {TRUE}

\* the topic lookup returns at most one record (LIMIT 1)
TopicOutcomes ==
  (IF CanFail("topic") THEN {Rejected} ELSE {})
    \cup (IF env.rich THEN {Resolved(<<>>)} ELSE {})
    \cup {Resolved(<<row>>) : row \in (IF env.rich THEN TopicRows ELSE {PlainTopic})}

SegmentOutcomes ==
  (IF CanFail("segments") THEN {Rejected} ELSE {})
    \cup {Resolved(records) : records \in (IF env.rich THEN SegmentResults ELSE {<<>>})}

\* the test inverted: `topicResult.records.length !== 0`
noTopicFound_Inverted(topicResult) == Len(topicResult.records) # 0

\* `topicResult.records.length === 0`
noTopicFound(topicResult) == Len(topicResult.records) = 0

\* the topic lookup and what follows it up to the segment lookup.
\* [events, thrown, done, context]: done when getContextFromKB has settled.
\* `topicResult.records[0].get(...)` on an empty result is a TypeError, caught
\* like every other error of the try block.
kbAfterTopic(distinctId, topicResult, captureThrows) ==
  IF topicResult.throws
    THEN kbCatch(distinctId, captureThrows) @@ [done |-> TRUE, context |-> Null]
  ELSE IF ~noTopicFound(topicResult) /\ Len(topicResult.records) = 0
    THEN kbCatch(distinctId, captureThrows) @@ [done |-> TRUE, context |-> Null]
  ELSE IF noTopicFound(topicResult)
    THEN LET t == trackIfId(distinctId, Event("knowledge_base_query", FALSE, <<>>),
                            captureThrows)
         IN IF t.threw
              THEN kbCatch(distinctId, captureThrows) @@ [done |-> TRUE, context |-> Null]
              ELSE [events |-> t.emitted, thrown |-> Null, done |-> TRUE, context |-> Null]
  ELSE [events |-> <<>>, thrown |-> Null, done |-> FALSE, context |-> Null]

\* the segment lookup and the rest of getContextFromKB
kbAfterSegments(distinctId, topTopic, segmentsResult, captureThrows) ==
  IF segmentsResult.throws
    THEN kbCatch(distinctId, captureThrows) @@ [context |-> Null]
  ELSE
    LET t == trackIfId(distinctId, Event("knowledge_base_query", TRUE, <<>>), captureThrows)
    IN IF t.threw
         THEN kbCatch(distinctId, captureThrows) @@ [context |-> Null]
         ELSE [events |-> t.emitted, thrown |-> Null,
               context |-> Some(RetrievedContext(topTopic, segmentsResult.records))]

(* ---------------------------- gemini-service.ts ------------------------ *)

\* `if (chatHistory.length > 10)`: the history keeps 5 exchanges, 10 messages
HistoryLimit == 10

\* Array.prototype.splice(start, deleteCount) without inserted items
splice(array, start, deleteCount) ==
  SubSeq(array, 1, start) \o SubSeq(array, start + deleteCount + 1, Len(array))

HistoryEntry(role, text) == [role |-> role, parts |-> <<[text |-> text]>>]

\* the trim cutting at the wrong end: `chatHistory.splice(10)`
pushExchange_KeepOldest(history, userText, text) ==
  LET pushed == history \o <<HistoryEntry("user", userText), HistoryEntry("model", text)>>
  IN IF Len(pushed) > HistoryLimit
       THEN splice(pushed, HistoryLimit, Len(pushed) - HistoryLimit)
       ELSE pushed

\* the trim leaving an entry less: `chatHistory.splice(0, chatHistory.length - 9)`
pushExchange_TrimToNine(history, userText, text) ==
  LET pushed == history \o <<HistoryEntry("user", userText), HistoryEntry("model", text)>>
  IN IF Len(pushed) > HistoryLimit
       THEN splice(pushed, 0, Len(pushed) - HistoryLimit + 1)
       ELSE pushed

\* the two pushes and the trim that follow a successful LLM call
pushExchange(history, userText, text) ==
  LET pushed == history \o <<HistoryEntry("user", userText), HistoryEntry("model", text)>>
  IN IF Len(pushed) > HistoryLimit
       THEN splice(pushed, 0, Len(pushed) - HistoryLimit)
       ELSE pushed

\* `message.history && message.history.trim() ? ... : ''`
historyContext(history) ==
  IF history # Null /\ history[1] # <<>> /\ trim(history[1]) # <<>>
    THEN <<NL, "Recent Chat History:", NL>> \o history[1] \o <<NL, NL>>
    ELSE <<>>

\* the test without its topic-name half
contextFound_SegmentsOnly(retrievedContext) ==
  /\ retrievedContext # Null
  /\ Len(retrievedContext[1].segments) > 0

\* `retrievedContext && (retrievedContext.segments.length > 0 || retrievedContext.topicName)`
contextFound(retrievedContext) ==
  /\ retrievedContext # Null
  /\ \/ Len(retrievedContext[1].segments) > 0
     \/ retrievedContext[1].topicName # <<>>

\* the system instruction and the prompt sent to the model
buildPrompt(text, history, retrievedContext) ==
  LET found == contextFound(retrievedContext)
      systemInstruction == IF found THEN SYSTEM_INSTRUCTION ELSE SYSTEM_INSTRUCTION_NO_CONTEXT
      promptForGemini ==
        IF found
          THEN <<"Context:", NL>> \o formatContextForPrompt(retrievedContext[1])
                 \o historyContext(history) \o <<"User Question: ">> \o text
                 \o <<NL, NL, "Answer:">>
          ELSE historyContext(history) \o text
  IN [systemInstruction |-> systemInstruction,
      promptForGemini |-> promptForGemini,
      fullPrompt |-> <<systemInstruction, NL, NL>> \o promptForGemini]

\* `error instanceof Error ? error.message : 'Unknown error'`
errorText(error) == IF error.isError THEN error.message ELSE <<"Unknown error">>

\* the user-facing message chosen in the catch block
errorResponse(error) ==
  IF error.isError /\ includes(error.message, "OPENAI_API_KEY") THEN OPENAI_KEY_RESPONSE
  ELSE IF error.isError /\ includes(error.message, "Neo4j") THEN NEO4J_RESPONSE
  ELSE GENERIC_RESPONSE

\* what the promise of a call settles with
Settled(kind, value) == [kind |-> kind, value |-> value]
Pending == Settled("pending", <<>>)

\* the question of call n
Question(n) == <<"q" \o ToString(n)>>

\* the texts a caller may send with call n, the client histories and the ids
Texts(n) == IF env.rich THEN {<<>>, <<" ">>, Question(n)} ELSE {Question(n)}
Histories == IF env.rich THEN {Null, Some(<<" ">>), Some(<<"U: hej">>)} ELSE {Null}
DistinctIds == env.users

\* the answer the LLM gives to call n
Reply(n) == <<"a" \o ToString(n)>>

\* one caller at a time, every input and every failure
SequentialEnv ==
  [rich |-> TRUE, inFlight |-> 1, limit |-> MaxCalls, users |-> {"", "u1"},
   failures |-> {"embedding", "driver", "topic", "segments", "llm", "capture"}]

\* two callers at a time, plain questions, and an LLM that can fail
ConcurrentEnv ==
  [rich |-> FALSE, inFlight |-> 2, limit |-> WindowCalls, users |-> {"u1"},
   failures |-> {"llm"}]

\* two users, two callers at a time, plain questions, and an LLM that can fail
TwoUsersEnv ==
  [rich |-> FALSE, inFlight |-> 2, limit |-> MaxCalls, users |-> {"u1", "u2"},
   failures |-> {"llm"}]

\* the state of call n on entry to getGeminiChatResponse
NewCall(n, text, history, distinctId) ==
  [pc |-> "embedding", n |-> n, text |-> text, history |-> history,
   distinctId |-> distinctId, topTopic |-> Null, retrievedContext |-> Null,
   systemInstruction |-> "", fullPrompt |-> <<>>, sentHistory |-> <<>>,
   error |-> Null, aiResponse |-> <<>>, success |-> TRUE, errorMessage |-> <<>>,
   returned |-> Pending, result |-> Pending,
   events |-> <<>>, captureFailed |-> FALSE, session |-> "none", closes |-> 0,
   lookups |-> <<>>,
   topicRecords |-> -1]

\* the service after module load
Loaded(environment) ==
  /\ chatHistory = <<>>
  /\ driver = FALSE
  /\ calls = {}
  /\ issued = 0
  /\ completed = <<>>
  /\ env = environment
  /\ extract = <<>>
  /\ route = <<>>

Start(environment) ==
  /\ Loaded(environment)
  /\ fn = ""
  /\ arg = <<>>
  /\ ret = <<>>

Init == Start(SequentialEnv)

InitConcurrent == Start(ConcurrentEnv)

InitTwoUsers == Start(TwoUsersEnv)

\* call c goes on as call d
Step(c, d) == calls' = (calls \ {c}) \cup {d}

\* a caller invokes getGeminiChatResponse(message, distinctId)
Invoke ==
  /\ Cardinality(calls) < env.inFlight
  /\ issued < env.limit
  /\ issued' = issued + 1
  /\ \E text \in Texts(issued + 1), history \in Histories, distinctId \in DistinctIds :
       calls' = calls \cup {NewCall(issued + 1, text, history, distinctId)}
  /\ UNCHANGED <<chatHistory, driver, completed, env, extract, route, fn, arg, ret>>

\* an exception thrown inside the try block of getGeminiChatResponse
Thrown(c, events, error) ==
  [c EXCEPT !.pc = "catch", !.events = c.events \o events, !.error = error]

\* whether client.capture throws
CaptureThrows == {~ok : ok \in Outcomes("capture")}

\* `await getOpenAIEmbedding(message.text, message.id, distinctId)`
Embedding(c) ==
  /\ c.pc = "embedding"
  /\ \E apiOk \in Outcomes("embedding"), captureThrows \in CaptureThrows :
       LET r == getOpenAIEmbedding(c.text, c.distinctId, apiOk, captureThrows)
       IN Step(c, IF r.thrown # Null THEN Thrown(c, r.events, r.thrown)
                  ELSE [c EXCEPT !.pc = "session", !.events = c.events \o r.events])
  /\ UNCHANGED <<chatHistory, driver, issued, completed, env, extract, route, fn, arg, ret>>

\* getContextFromKB without its finally block
closeSession_Never(c) == c

\* the finally block of getContextFromKB: `await session.close()`
closeSession(c) == [c EXCEPT !.session = "closed", !.closes = @ + 1]

\* getContextFromKB: `getDriver().session()`, the driver being created on first use
OpenSession(c) ==
  /\ c.pc = "session"
  /\ \E created \in Outcomes("driver") :
       IF driver \/ created
         THEN /\ driver' = TRUE
              /\ Step(c, [c EXCEPT !.pc = "topic", !.session = "open"])
         ELSE /\ driver' = FALSE
              /\ Step(c, Thrown(c, <<>>, Some(DriverError)))
  /\ UNCHANGED <<chatHistory, issued, completed, env, extract, route, fn, arg, ret>>

\* getContextFromKB: the topic lookup; with no record the function returns null
TopicLookup(c) ==
  /\ c.pc = "topic"
  /\ \E topicResult \in TopicOutcomes, captureThrows \in CaptureThrows :
       LET looked == [c EXCEPT !.lookups = @ \o <<"topic">>,
                               !.topicRecords = IF topicResult.throws THEN -1
                                                ELSE Len(topicResult.records)]
           closed == closeSession(looked)
           r == kbAfterTopic(c.distinctId, topicResult, captureThrows)
       IN Step(c, IF ~r.done
                    THEN [looked EXCEPT !.pc = "segments", !.topTopic = topicResult.records]
                  ELSE IF r.thrown # Null
                    THEN Thrown(closed, r.events, r.thrown)
                  ELSE [closed EXCEPT !.pc = "prompt", !.events = c.events \o r.events,
                                      !.retrievedContext = r.context])
  /\ UNCHANGED <<chatHistory, driver, issued, completed, env, extract, route, fn, arg, ret>>

\* getContextFromKB: the segment lookup and the context built from it
SegmentLookup(c) ==
  /\ c.pc = "segments"
  /\ \E segmentsResult \in SegmentOutcomes, captureThrows \in CaptureThrows :
       LET closed == closeSession([c EXCEPT !.lookups = @ \o <<"segments">>])
           r == kbAfterSegments(c.distinctId, c.topTopic[1], segmentsResult, captureThrows)
       IN Step(c, IF r.thrown # Null THEN Thrown(closed, r.events, r.thrown)
                  ELSE [closed EXCEPT !.pc = "prompt", !.events = c.events \o r.events,
                                      !.retrievedContext = r.context])
  /\ UNCHANGED <<chatHistory, driver, issued, completed, env, extract, route, fn, arg, ret>>

\* the user's message pushed before the LLM is called
StartChat_PushesUser(c) ==
  /\ c.pc = "prompt"
  /\ LET p == buildPrompt(c.text, c.history, c.retrievedContext)
     IN Step(c, [c EXCEPT !.pc = "sendMessage",
                          !.systemInstruction = p.systemInstruction,
                          !.fullPrompt = p.fullPrompt,
                          !.sentHistory = chatHistory])
  /\ chatHistory' = Append(chatHistory, HistoryEntry("user", c.text))
  /\ UNCHANGED <<driver, issued, completed, env, extract, route, fn, arg, ret>>

\* the prompt is assembled and model.startChat is given a copy of chatHistory
StartChat(c) ==
  /\ c.pc = "prompt"
  /\ LET p == buildPrompt(c.text, c.history, c.retrievedContext)
     IN Step(c, [c EXCEPT !.pc = "sendMessage",
                          !.systemInstruction = p.systemInstruction,
                          !.fullPrompt = p.fullPrompt,
                          !.sentHistory = chatHistory])
  /\ UNCHANGED <<chatHistory, driver, issued, completed, env, extract, route, fn, arg, ret>>

\* chat.sendMessage resolves: the call is tracked, the exchange is pushed and
\* the history trimmed, and the answer is returned
SendMessageResolves(c) ==
  /\ c.pc = "sendMessage"
  /\ \E captureThrows \in CaptureThrows :
       LET text == Reply(c.n)
           t == trackIfId(c.distinctId, Event("llm_call", TRUE, <<>>), captureThrows)
       IN IF t.threw
            THEN /\ Step(c, Thrown(c, <<>>, Some(CaptureError)))
                 /\ UNCHANGED <<chatHistory, completed>>
            ELSE /\ chatHistory' = pushExchange(chatHistory, c.text, text)
                 /\ completed' = Append(completed, [user |-> c.text, model |-> text])
                 /\ Step(c, [c EXCEPT !.pc = "finally", !.events = c.events \o t.emitted,
                                      !.aiResponse = text,
                                      !.returned = Settled("resolved", text)])
  /\ UNCHANGED <<driver, issued, env, extract, route, fn, arg, ret>>

\* chat.sendMessage rejects
SendMessageRejects(c) ==
  /\ c.pc = "sendMessage"
  /\ CanFail("llm")
  /\ \E error \in (IF env.rich THEN {LLMError, NonError} ELSE {LLMError}) :
       Step(c, Thrown(c, <<>>, Some(error)))
  /\ UNCHANGED <<chatHistory, driver, issued, completed, env, extract, route, fn, arg, ret>>

\* the catch block: the failed call is tracked and a user-facing message chosen
Catch(c) ==
  /\ c.pc = "catch"
  /\ \E captureThrows \in CaptureThrows :
       LET error == c.error[1]
           t == trackIfId(c.distinctId, Event("llm_call", FALSE, <<>>), captureThrows)
           caught == [c EXCEPT !.pc = "finally", !.success = FALSE,
                               !.errorMessage = errorText(error),
                               !.events = c.events \o t.emitted]
       IN Step(c, IF t.threw
                    THEN [caught EXCEPT !.returned = Settled("rejected", CaptureError.message)]
                    ELSE [caught EXCEPT !.aiResponse = errorResponse(error),
                                        !.returned = Settled("resolved", errorResponse(error))])
  /\ UNCHANGED <<chatHistory, driver, issued, completed, env, extract, route, fn, arg, ret>>

\* the finally block: the interaction is tracked, then the promise settles
Finally(c) ==
  /\ c.pc = "finally"
  /\ \E captureThrows \in CaptureThrows :
       LET t == IF c.distinctId # ""
                  THEN trackChatInteraction([aiResponse |-> c.aiResponse,
                                             success |-> c.success,
                                             retrievalSuccess |-> c.retrievedContext # Null],
                                            captureThrows)
                  ELSE [emitted |-> <<>>, threw |-> FALSE]
       IN Step(c, [c EXCEPT !.pc = "done", !.events = c.events \o t.emitted,
                            !.captureFailed = c.distinctId # "" /\ captureThrows,
                            !.result = IF t.threw
                                         THEN Settled("rejected", CaptureError.message)
                                         ELSE c.returned])
  /\ UNCHANGED <<chatHistory, driver, issued, completed, env, extract, route, fn, arg, ret>>

\* the caller takes the result
Return(c) ==
  /\ c.pc = "done"
  /\ calls' = calls \ {c}
  /\ UNCHANGED <<chatHistory, driver, issued, completed, env, extract, route, fn, arg, ret>>

Next ==
  \/ Invoke
  \/ \E c \in calls : Embedding(c)
  \/ \E c \in calls : OpenSession(c)
  \/ \E c \in calls : TopicLookup(c)
  \/ \E c \in calls : SegmentLookup(c)
  \/ \E c \in calls : StartChat(c)
  \/ \E c \in calls : SendMessageResolves(c)
  \/ \E c \in calls : SendMessageRejects(c)
  \/ \E c \in calls : Catch(c)
  \/ \E c \in calls : Finally(c)
  \/ \E c \in calls : Return(c)

Spec == Init /\ [][Next]_vars

SpecConcurrent == InitConcurrent /\ [][Next]_vars

SpecTwoUsers == InitTwoUsers /\ [][Next]_vars

\* every call goes on: each promise the service awaits settles
Fairness ==
  /\ WF_vars(\E c \in calls : Embedding(c))
  /\ WF_vars(\E c \in calls : OpenSession(c))
  /\ WF_vars(\E c \in calls : TopicLookup(c))
  /\ WF_vars(\E c \in calls : SegmentLookup(c))
  /\ WF_vars(\E c \in calls : StartChat(c))
  /\ WF_vars(\E c \in calls : SendMessageResolves(c) \/ SendMessageRejects(c))
  /\ WF_vars(\E c \in calls : Catch(c))
  /\ WF_vars(\E c \in calls : Finally(c))

SpecFair == Init /\ [][Next]_vars /\ Fairness

(* ------------------ formatContextForPrompt on its own ------------------ *)

\* the sequences over S of length at most n
SeqsUpTo(S, n) == UNION {[1..k -> S] : k \in 0..n}

\* segments with and without a public URL and a page, with a text of one line
\* and a text of two
FormatSegments ==
  [documentPath : {<<"m.pdf">>},
   segmentText : {<<"x">>, <<"x", NL, "y">>},
   segmentPage : {0, 3},
   publicUrl : {<<>>, <<"https://r.se/m">>}]

FormatContexts ==
  [topicName : {<<>>, <<"Skola">>},
   topicDescription : {<<"Utbildning">>, <<"Utbildning", NL, "och skola">>},
   segments : SeqsUpTo(FormatSegments, MaxSegments)]

InitFormat ==
  /\ Loaded(SequentialEnv)
  /\ fn = "formatContextForPrompt"
  /\ arg \in FormatContexts
  /\ ret = <<>>

Format ==
  /\ fn = "formatContextForPrompt"
  /\ ret = <<>>
  /\ ret' = Some(formatContextForPrompt(arg))
  /\ UNCHANGED <<chatHistory, driver, calls, issued, completed, env, extract, route, fn, arg>>

NextFormat == Format

SpecFormat == InitFormat /\ [][NextFormat]_vars

(* ------------------- merge of the per-query records -------------------- *)
(* The merge and the query expansion are described by the specification    *)
(* only; they are modelled from its words.                                 *)

\* the placeholder topic of a merge in which no record has a name and a description
AggregatedTopic == [topicName |-> <<"aggregated">>, topicDescription |-> <<"aggregated">>]

\* the identity reduced to the text
dedupeKey_TextOnly(seg) == <<seg.segmentText, <<>> >>

\* the identity of a segment in the merge
dedupeKey(seg) == <<seg.segmentText, seg.documentPath>>

\* the non-null records of the input, in input order
RECURSIVE nonNull(_)
nonNull(records) ==
  IF records = <<>> THEN <<>>
  ELSE (IF Head(records) = Null THEN <<>> ELSE <<Head(records)[1]>>) \o nonNull(Tail(records))

\* the segments of the records one after the other
RECURSIVE allSegments(_)
allSegments(valid) ==
  IF valid = <<>> THEN <<>> ELSE Head(valid).segments \o allSegments(Tail(valid))

\* the segments whose key was not seen before, first-seen order
RECURSIVE dedupe(_, _)
dedupe(segments, seen) ==
  IF segments = <<>> THEN <<>>
  ELSE IF dedupeKey(Head(segments)) \in seen THEN dedupe(Tail(segments), seen)
  ELSE <<Head(segments)>> \o dedupe(Tail(segments), seen \cup {dedupeKey(Head(segments))})

\* every record taken to have a topic
hasTopic_Any(record) == TRUE

\* a record with both a topic name and a topic description
hasTopic(record) == record.topicName # <<>> /\ record.topicDescription # <<>>

\* the placeholder used whatever the records hold
representativeTopic_Placeholder(valid) == AggregatedTopic

\* the topic of the first record that has one, else the placeholder
RECURSIVE representativeTopic(_)
representativeTopic(valid) ==
  IF valid = <<>> THEN AggregatedTopic
  ELSE IF hasTopic(Head(valid))
    THEN [topicName |-> Head(valid).topicName,
          topicDescription |-> Head(valid).topicDescription]
  ELSE representativeTopic(Tail(valid))

\* the paths of the documents of the segments, first-seen order
RECURSIVE documentsOf(_, _)
documentsOf(segments, seen) ==
  IF segments = <<>> THEN <<>>
  ELSE IF Head(segments).documentPath \in seen THEN documentsOf(Tail(segments), seen)
  ELSE <<Head(segments).documentPath>>
         \o documentsOf(Tail(segments), seen \cup {Head(segments).documentPath})

\* the merged record of a list of records none of which is null
mergedRecord(valid) ==
  LET topic == representativeTopic(valid)
      segments == dedupe(allSegments(valid), {})
  IN [topicName |-> topic.topicName,
      topicDescription |-> topic.topicDescription,
      segments |-> segments,
      documentsReferenced |-> documentsOf(segments, {})]

\* the test left out
nothingRetrieved_Never(valid) == FALSE

\* whether the merge has nothing to return
nothingRetrieved(valid) == valid = <<>>

\* the merge: null when every record is null, else one record
mergeContexts(records) ==
  LET valid == nonNull(records)
  IN IF nothingRetrieved(valid) THEN Null ELSE Some(mergedRecord(valid))

\* segments that share a key, a text or a path
SegA == [segmentText |-> <<"x">>, documentPath |-> <<"m.pdf">>, similarityScore |-> 9]
SegADup == [segmentText |-> <<"x">>, documentPath |-> <<"m.pdf">>, similarityScore |-> 5]
SegB == [segmentText |-> <<"x">>, documentPath |-> <<"s.pdf">>, similarityScore |-> 8]
SegC == [segmentText |-> <<"y">>, documentPath |-> <<"m.pdf">>, similarityScore |-> 7]

MergeSegmentLists ==
  {<<>>, <<SegA>>, <<SegADup, SegC>>, <<SegB, SegA>>, <<SegA, SegADup>>}

\* records with a full topic, without a description and without a name
MergeTopics ==
  { [topicName |-> <<"Skola">>, topicDescription |-> <<"Utbildning">>],
    [topicName |-> <<"Vard">>, topicDescription |-> <<"Sjukvard">>],
    [topicName |-> <<"Skola">>, topicDescription |-> <<>>],
    [topicName |-> <<>>, topicDescription |-> <<"Sjukvard">>] }

MergeRecords ==
  {Null} \cup
  { Some([topicName |-> t.topicName, topicDescription |-> t.topicDescription,
          segments |-> segs]) : t \in MergeTopics, segs \in MergeSegmentLists }

InitMerge ==
  /\ Loaded(SequentialEnv)
  /\ fn = "mergeContexts"
  /\ arg \in SeqsUpTo(MergeRecords, MaxRecords)
  /\ ret = <<>>

Merge ==
  /\ fn = "mergeContexts"
  /\ ret = <<>>
  /\ ret' = Some(mergeContexts(arg))
  /\ UNCHANGED <<chatHistory, driver, calls, issued, completed, env, extract, route, fn, arg>>

NextMerge == Merge

SpecMerge == InitMerge /\ [][NextMerge]_vars

(* --------------------------- query expansion --------------------------- *)

\* the most queries kept of a reply
MaxQueries == 4

\* the tokens of a reply: the brackets, a string literal, and anything else
ReplyTokens == {"[", "]", "\"q\"", "x"}

isStringLiteral(token) == token = "\"q\""

\* the position of the first "[" and of the last "]", 0 when there is none
firstOpen(reply) ==
  IF \E i \in 1..Len(reply) : reply[i] = "["
    THEN CHOOSE i \in 1..Len(reply) :
           reply[i] = "[" /\ \A j \in 1..(i - 1) : reply[j] # "["
    ELSE 0

lastClose(reply) ==
  IF \E i \in 1..Len(reply) : reply[i] = "]"
    THEN CHOOSE i \in 1..Len(reply) :
           reply[i] = "]" /\ \A j \in (i + 1)..Len(reply) : reply[j] # "]"
    ELSE 0

\* the regular expression: the text from the first "[" to the last "]"
extractArray(reply) ==
  IF firstOpen(reply) # 0 /\ lastClose(reply) > firstOpen(reply)
    THEN Some(SubSeq(reply, firstOpen(reply), lastClose(reply)))
    ELSE Null

\* JSON.parse and the check of the value: the items of an array of one or more
\* strings, null for anything else
parseQueries(reply) ==
  LET found == extractArray(reply)
  IN IF found = Null THEN Null
     ELSE LET items == SubSeq(found[1], 2, Len(found[1]) - 1)
          IN IF items # <<>> /\ \A i \in 1..Len(items) : isStringLiteral(items[i])
               THEN Some(items)
               ELSE Null

\* no query at all
fallbackQueries_Empty(userMessage) == <<>>

\* what stands in for the queries when the reply does not parse
fallbackQueries(userMessage) == <<userMessage>>

\* the queries searched for a user message, given the reply of the model
generateQueries(userMessage, reply) ==
  LET parsed == parseQueries(reply)
  IN IF parsed = Null THEN fallbackQueries(userMessage)
     ELSE SubSeq(parsed[1], 1, IF Len(parsed[1]) < MaxQueries THEN Len(parsed[1]) ELSE MaxQueries)

InitQueries ==
  /\ Loaded(SequentialEnv)
  /\ fn = "generateQueries"
  /\ arg \in [userMessage : {"Vad tycker partierna om skolan?"},
              reply : SeqsUpTo(ReplyTokens, MaxReplyTokens)]
  /\ ret = <<>>

GenerateQueries ==
  /\ fn = "generateQueries"
  /\ ret = <<>>
  /\ ret' = Some(generateQueries(arg.userMessage, arg.reply))
  /\ UNCHANGED <<chatHistory, driver, calls, issued, completed, env, extract, route, fn, arg>>

NextQueries == GenerateQueries

SpecQueries == InitQueries /\ [][NextQueries]_vars

(* ------------- crypto: createHash('sha256'), 32-bit words -------------- *)
(* A character string is a sequence of one-character strings.  A 32-bit   *)
(* word is the pair <<high 16 bits, low 16 bits>>.                        *)

\* the printable ASCII characters from code 32 to code 95
AsciiFrom32 ==
  << " ", "!", "\"", "#", "$", "%", "&", "'", "(", ")", "*", "+", ",", "-", ".", "/",
     "0", "1", "2", "3", "4", "5", "6", "7", "8", "9", ":", ";", "<", "=", ">", "?",
     "@", "A", "B", "C", "D", "E", "F", "G", "H", "I", "J", "K", "L", "M", "N", "O",
     "P", "Q", "R", "S", "T", "U", "V", "W", "X", "Y", "Z", "[", "\\", "]", "^", "_" >>

\* the printable ASCII characters from code 97 to code 126
AsciiFrom97 ==
  << "a", "b", "c", "d", "e", "f", "g", "h", "i", "j", "k", "l", "m", "n", "o",
     "p", "q", "r", "s", "t", "u", "v", "w", "x", "y", "z", "{", "|", "}", "~" >>

\* the UTF-8 encoding of a string of these characters: one byte each
charCode ==
  [ch \in {AsciiFrom32[i] : i \in 1..Len(AsciiFrom32)}
            \cup {AsciiFrom97[i] : i \in 1..Len(AsciiFrom97)} |->
     IF \E i \in 1..Len(AsciiFrom32) : AsciiFrom32[i] = ch
       THEN 31 + (CHOOSE i \in 1..Len(AsciiFrom32) : AsciiFrom32[i] = ch)
       ELSE 96 + (CHOOSE i \in 1..Len(AsciiFrom97) : AsciiFrom97[i] = ch)]

utf8(s) == [i \in 1..Len(s) |-> charCode[s[i]]]

Half == 65536

PowersOfTwo ==
  <<1, 2, 4, 8, 16, 32, 64, 128, 256, 512, 1024, 2048, 4096, 8192, 16384, 32768, 65536>>

Pow2(n) == PowersOfTwo[n + 1]

RECURSIVE xor16(_, _)
xor16(a, b) ==
  IF a = 0 THEN b
  ELSE IF b = 0 THEN a
  ELSE ((a + b) % 2) + 2 * xor16(a \div 2, b \div 2)

RECURSIVE and16(_, _)
and16(a, b) ==
  IF a = 0 \/ b = 0 THEN 0
  ELSE (a % 2) * (b % 2) + 2 * and16(a \div 2, b \div 2)

xor32(a, b) == <<xor16(a[1], b[1]), xor16(a[2], b[2])>>
and32(a, b) == <<and16(a[1], b[1]), and16(a[2], b[2])>>
not32(a) == <<Half - 1 - a[1], Half - 1 - a[2]>>

\* addition modulo 2^32
add32(a, b) ==
  LET lo == a[2] + b[2]
      hi == a[1] + b[1] + (lo \div Half)
  IN  <<hi % Half, lo % Half>>

RECURSIVE rotr(_, _)
rotr(w, n) ==
  IF n >= 16 THEN rotr(<<w[2], w[1]>>, n - 16)
  ELSE <<(w[1] \div Pow2(n)) + (w[2] % Pow2(n)) * Pow2(16 - n),
         (w[2] \div Pow2(n)) + (w[1] % Pow2(n)) * Pow2(16 - n)>>

shr(w, n) ==
  IF n >= 16 THEN <<0, w[1] \div Pow2(n - 16)>>
  ELSE <<w[1] \div Pow2(n), (w[2] \div Pow2(n)) + (w[1] % Pow2(n)) * Pow2(16 - n)>>

Ch(x, y, z) == xor32(and32(x, y), and32(not32(x), z))
Maj(x, y, z) == xor32(xor32(and32(x, y), and32(x, z)), and32(y, z))
BigSigma0(x) == xor32(xor32(rotr(x, 2), rotr(x, 13)), rotr(x, 22))
BigSigma1(x) == xor32(xor32(rotr(x, 6), rotr(x, 11)), rotr(x, 25))
SmallSigma0(x) == xor32(xor32(rotr(x, 7), rotr(x, 18)), shr(x, 3))
SmallSigma1(x) == xor32(xor32(rotr(x, 17), rotr(x, 19)), shr(x, 10))

SHA256_K ==
  <<
    <<17034, 12184>>, <<28983, 17553>>, <<46528, 64463>>, <<59829, 56229>>,
    <<14678, 49755>>, <<23025, 4593>>, <<37439, 33444>>, <<43804, 24277>>,
    <<55303, 43672>>, <<4739, 23297>>, <<9265, 34238>>, <<21772, 32195>>,
    <<29374, 23924>>, <<32990, 45566>>, <<39900, 1703>>, <<49563, 61812>>,
    <<58523, 27073>>, <<61374, 18310>>, <<4033, 40390>>, <<9228, 41420>>,
    <<11753, 11375>>, <<19060, 33962>>, <<23728, 43484>>, <<30457, 35034>>,
    <<38974, 20818>>, <<43057, 50797>>, <<45059, 10184>>, <<48985, 32711>>,
    <<50912, 3059>>, <<54695, 37191>>, <<1738, 25425>>, <<5161, 10599>>,
    <<10167, 2693>>, <<11803, 8504>>, <<19756, 28156>>, <<21304, 3347>>,
    <<25866, 29524>>, <<30314, 2747>>, <<33218, 51502>>, <<37490, 11397>>,
    <<41663, 59553>>, <<43034, 26187>>, <<49739, 35696>>, <<51052, 20899>>,
    <<53650, 59417>>, <<54937, 1572>>, <<62478, 13701>>, <<4202, 41072>>,
    <<6564, 49430>>, <<7735, 27656>>, <<10056, 30540>>, <<13488, 48309>>,
    <<14620, 3251>>, <<20184, 43594>>, <<23452, 51791>>, <<26670, 28659>>,
    <<29839, 33518>>, <<30885, 25455>>, <<33992, 30740>>, <<36039, 520>>,
    <<37054, 65530>>, <<42064, 27883>>, <<48889, 41975>>, <<50801, 30962>>
  >>

SHA256_H0 ==
  <<
    <<27145, 58983>>, <<47975, 44677>>, <<15470, 62322>>, <<42319, 62778>>,
    <<20750, 21119>>, <<39685, 26764>>, <<8067, 55723>>, <<23520, 52505>>
  >>

\* the message followed by the bit 1, zero bits and its length in bits
RECURSIVE zeros(_)
zeros(n) == IF n = 0 THEN <<>> ELSE <<0>> \o zeros(n - 1)

lengthBytes(bits) ==
  <<0, 0, 0, 0, (bits \div 16777216) % 256, (bits \div 65536) % 256,
    (bits \div 256) % 256, bits % 256>>

padded(bytes) ==
  bytes \o <<128>> \o zeros((119 - (Len(bytes) % 64)) % 64) \o lengthBytes(8 * Len(bytes))

\* the sixteen words of the block starting after byte `from`
blockWords(bytes, from) ==
  [t \in 1..16 |->
     <<bytes[from + 4 * t - 3] * 256 + bytes[from + 4 * t - 2],
       bytes[from + 4 * t - 1] * 256 + bytes[from + 4 * t]>>]

\* the message schedule
RECURSIVE schedule(_)
schedule(w) ==
  IF Len(w) = 64 THEN w
  ELSE LET t == Len(w) + 1
       IN  schedule(Append(w,
             add32(add32(SmallSigma1(w[t - 2]), w[t - 7]),
                   add32(SmallSigma0(w[t - 15]), w[t - 16]))))

round(v, k, w) ==
  LET T1 == add32(add32(add32(v[8], BigSigma1(v[5])), add32(Ch(v[5], v[6], v[7]), k)), w)
      T2 == add32(BigSigma0(v[1]), Maj(v[1], v[2], v[3]))
  IN  <<add32(T1, T2), v[1], v[2], v[3], add32(v[4], T1), v[5], v[6], v[7]>>

\* the working variables after each of the 64 rounds, the initial ones first
RECURSIVE rounds(_, _)
rounds(vs, w) ==
  IF Len(vs) = 65 THEN vs
  ELSE LET t == Len(vs)
       IN  rounds(Append(vs, round(vs[t], SHA256_K[t], w[t])), w)

compress(h, block) ==
  LET v == rounds(<<h>>, schedule(block))[65]
  IN  [i \in 1..8 |-> add32(h[i], v[i])]

RECURSIVE blocks(_, _, _)
blocks(h, bytes, from) ==
  IF from >= Len(bytes) THEN h
  ELSE blocks(compress(h, blockWords(bytes, from)), bytes, from + 64)

sha256(bytes) == blocks(SHA256_H0, padded(bytes), 0)

HexDigits ==
  <<"0", "1", "2", "3", "4", "5", "6", "7", "8", "9", "a", "b", "c", "d", "e", "f">>

hex16(n) ==
  <<HexDigits[(n \div 4096) + 1], HexDigits[((n \div 256) % 16) + 1],
    HexDigits[((n \div 16) % 16) + 1], HexDigits[(n % 16) + 1]>>

RECURSIVE hexWords(_)
hexWords(ws) ==
  IF ws = <<>> THEN <<>>
  ELSE hex16(Head(ws)[1]) \o hex16(Head(ws)[2]) \o hexWords(Tail(ws))

\* createHash('sha256').update(data).digest('hex')
digestHex(data) == hexWords(sha256(utf8(data)))

(* ----------------------- middleware/analytics.ts ----------------------- *)
(* The strings of this part are character strings.  A request is the      *)
(* record of what the middleware reads from it: a header or a cookie is   *)
(* <<>> when the request does not have it and <<value>> when it has.      *)

\* a JavaScript string | null | undefined that is truthy
truthy(v) == v # Null /\ v[1] # <<>>

\* a || b
orElse(a, b) == IF truthy(a) THEN a ELSE b

DecimalDigits == <<"0", "1", "2", "3", "4", "5", "6", "7", "8", "9">>

\* the decimal digits of n, padded with zeros to a width
RECURSIVE padStart(_, _)
padStart(n, width) ==
  IF width = 0 THEN <<>>
  ELSE padStart(n \div 10, width - 1) \o <<DecimalDigits[(n % 10) + 1]>>

\* Date.prototype.toISOString of an instant given by its UTC fields
toISOString(now) ==
  padStart(now.year, 4) \o <<"-">> \o padStart(now.month, 2) \o <<"-">>
    \o padStart(now.day, 2) \o <<"T">> \o padStart(now.hour, 2)
    \o <<":", "0", "0", ":", "0", "0", ".", "0", "0", "0", "Z">>

\* s.split(separator)[0]
splitFirst(s, separator) ==
  IF \E i \in 1..Len(s) : s[i] = separator
    THEN SubSeq(s, 1, (CHOOSE i \in 1..Len(s) :
                         s[i] = separator /\ \A j \in 1..(i - 1) : s[j] # separator) - 1)
    ELSE s

\* s.substring(start, end)
substring(s, start, end) ==
  SubSeq(s, start + 1, IF end < Len(s) THEN end ELSE Len(s))

\* the salt of every hour: the date and the hour of the instant
getDailySalt_Hourly(now) ==
  <<"v", "a", "l", "k", "o", "m", "p", "a", "s", "s", "-">>
    \o substring(toISOString(now), 0, 13)

\* the same salt on every day
getDailySalt_Constant(now) ==
  <<"v", "a", "l", "k", "o", "m", "p", "a", "s", "s", "-">>

\* getDailySalt: `valkompass-${today}`, today the YYYY-MM-DD of the instant
getDailySalt(now) ==
  <<"v", "a", "l", "k", "o", "m", "p", "a", "s", "s", "-">>
    \o splitFirst(toISOString(now), "T")

Unknown == <<"u", "n", "k", "n", "o", "w", "n">>

\* the data hashed with the forwarded address in front
sessionData_WithIp(req, now) ==
  (IF req.xForwardedFor # Null THEN req.xForwardedFor[1] ELSE <<>>)
    \o orElse(req.userAgent, Some(Unknown))[1] \o <<"-">> \o getDailySalt(now)

\* `${userAgent}-${dailySalt}` with userAgent the header || 'unknown'
sessionData(req, now) ==
  orElse(req.userAgent, Some(Unknown))[1] \o <<"-">> \o getDailySalt(now)

\* the cookie before the header
explicitUserId_CookieFirst(req) == orElse(req.cookieUserId, req.xUserId)

\* req.headers.get('x-user-id') || req.cookies.get('user_id')?.value
explicitUserId(req) == orElse(req.xUserId, req.cookieUserId)

(* the requests and the instants considered *)

UserIds == {Null, Some(<<>>), Some(<<"u", "1">>)}

CookieIds == {Null, Some(<<>>), Some(<<"c", "7">>)}

UserAgents ==
  {Null, Some(<<>>), Some(Unknown), Some(<<"C", "h", "r", "o", "m", "e">>),
   Some(<<"F", "i", "r", "e", "f", "o", "x">>)}

Addresses == {Null, Some(<<"1", "0", ".", "0", ".", "0", ".", "7">>)}

Requests ==
  [xUserId : UserIds, cookieUserId : CookieIds, userAgent : UserAgents,
   xForwardedFor : Addresses, xRealIp : Addresses, cfConnectingIp : Addresses,
   referer : {Null}, method : {"POST"}, pathname : {"/api/chat"}]

Instants == [year : {2025}, month : {6}, day : 1..MaxDays, hour : {0, 23}]

\* the digests of the session data of these requests, computed once
DigestTable ==
  {<<data, digestHex(data)>> :
     data \in {sessionData(req, now) : req \in Requests, now \in Instants}}

\* createHash('sha256').update(data).digest('hex')
createHash(data) ==
  IF \E entry \in DigestTable : entry[1] = data
    THEN (CHOOSE entry \in DigestTable : entry[1] = data)[2]
    ELSE digestHex(data)

SessionPrefix == <<"s", "e", "s", "s", "i", "o", "n", "_">>

getPrivacyPreservingUserId(req, now) ==
  IF truthy(explicitUserId(req))
    THEN explicitUserId(req)[1]
    ELSE SessionPrefix \o substring(createHash(sessionData(req, now)), 0, 16)

\* RegExp.prototype.test for a pattern that is a literal text
test(pattern, s) ==
  \E i \in 1..(Len(s) - Len(pattern) + 1) : SubSeq(s, i, i + Len(pattern) - 1) = pattern

EdgPattern == <<"E", "d", "g", "/">>
ChromePattern == <<"C", "h", "r", "o", "m", "e">>
FirefoxPattern == <<"F", "i", "r", "e", "f", "o", "x">>
SafariPattern == <<"S", "a", "f", "a", "r", "i">>
MobilePatterns ==
  {<<"M", "o", "b", "i", "l", "e">>, <<"A", "n", "d", "r", "o", "i", "d">>,
   <<"i", "P", "h", "o", "n", "e">>, <<"i", "P", "a", "d">>}

\* the rule of Chrome before the rule of Edge
browserOf_ChromeFirst(userAgent) ==
  IF test(ChromePattern, userAgent) THEN "chrome"
  ELSE IF test(EdgPattern, userAgent) THEN "edge"
  ELSE IF test(FirefoxPattern, userAgent) THEN "firefox"
  ELSE IF test(SafariPattern, userAgent) /\ ~test(ChromePattern, userAgent) THEN "safari"
  ELSE "unknown"

\* the if / else if chain of getUserAgentInfo
browserOf(userAgent) ==
  IF test(EdgPattern, userAgent) THEN "edge"
  ELSE IF test(ChromePattern, userAgent) THEN "chrome"
  ELSE IF test(FirefoxPattern, userAgent) THEN "firefox"
  ELSE IF test(SafariPattern, userAgent) /\ ~test(ChromePattern, userAgent) THEN "safari"
  ELSE "unknown"

getUserAgentInfo(userAgent) ==
  IF ~truthy(userAgent)
    THEN [browser |-> "unknown", mobile |-> FALSE]
    ELSE [browser |-> browserOf(userAgent[1]),
          mobile |-> \E pattern \in MobilePatterns : test(pattern, userAgent[1])]

\* posthog.ts trackApiCall: the 'api_call' event given to trackEvent
trackApiCall(distinctId, endpoint, method, statusCode, duration, properties, captureThrows) ==
  trackEvent([name |-> "api_call", distinctId |-> distinctId, endpoint |-> endpoint,
              method |-> method, status_code |-> statusCode, duration_ms |-> duration,
              user_agent |-> properties.user_agent,
              has_referer |-> properties.has_referer],
             captureThrows)

InternalServerError == [status |-> 500, error |-> "Internal Server Error"]

\* the wrapper recording the status of the handler's own response
withAnalytics_HandlerStatus(req, handler, now, duration, captureThrows) ==
  LET distinctId == getPrivacyPreservingUserId(req, now)
      response == IF handler.throws THEN InternalServerError ELSE handler.response
      tracked == trackApiCall(distinctId, req.pathname, req.method, handler.response.status,
                              duration,
                              [user_agent |-> getUserAgentInfo(req.userAgent),
                               has_referer |-> truthy(req.referer)],
                              captureThrows)
  IN  [response |-> response, events |-> tracked.emitted]

\* the function returned by withAnalytics applied to a request: handler is what
\* the wrapped handler does, now the instant of the request, duration the
\* milliseconds from startTime to the end of the handler
withAnalytics(req, handler, now, duration, captureThrows) ==
  LET distinctId == getPrivacyPreservingUserId(req, now)
      response == IF handler.throws THEN InternalServerError ELSE handler.response
      tracked == trackApiCall(distinctId, req.pathname, req.method, response.status,
                              duration,
                              [user_agent |-> getUserAgentInfo(req.userAgent),
                               has_referer |-> truthy(req.referer)],
                              captureThrows)
  IN  [response |-> response, events |-> tracked.emitted]

(* two requests that differ in one respect, each through the middleware *)

\* the second request: the first with another User-Agent, with other address
\* headers, or at another instant
Variants(a) ==
  {[req |-> [a.req EXCEPT !.userAgent = u], now |-> a.now] : u \in UserAgents}
    \cup {[req |-> [a.req EXCEPT !.xForwardedFor = f, !.xRealIp = r,
                                 !.cfConnectingIp = c],
           now |-> a.now] : f \in Addresses, r \in Addresses, c \in Addresses}
    \cup {[req |-> a.req, now |-> n] : n \in Instants}

Handlers ==
  {[throws |-> TRUE, response |-> [status |-> 0, error |-> ""]],
   [throws |-> FALSE, response |-> [status |-> 200, error |-> ""]],
   [throws |-> FALSE, response |-> [status |-> 400, error |-> "Invalid message format"]]}

InitAnalytics ==
  /\ Loaded(SequentialEnv)
  /\ fn \in {"getPrivacyPreservingUserId", "withAnalytics"}
  /\ \E a \in [req : Requests, now : Instants] :
       \E b \in Variants(a) : arg = [a |-> a, b |-> b]
  /\ ret = <<>>

GetPrivacyPreservingUserId ==
  /\ fn = "getPrivacyPreservingUserId"
  /\ ret = <<>>
  /\ ret' = Some([a |-> getPrivacyPreservingUserId(arg.a.req, arg.a.now),
                  b |-> getPrivacyPreservingUserId(arg.b.req, arg.b.now)])
  /\ UNCHANGED <<chatHistory, driver, calls, issued, completed, env, extract, route, fn, arg>>

WithAnalytics ==
  /\ fn = "withAnalytics"
  /\ ret = <<>>
  /\ \E handler \in Handlers, captureThrows \in BOOLEAN :
       ret' = Some([a |-> withAnalytics(arg.a.req, handler, arg.a.now, 7, captureThrows),
                    b |-> withAnalytics(arg.b.req, handler, arg.b.now, 7, captureThrows),
                    handler |-> handler, captureThrows |-> captureThrows])
  /\ UNCHANGED <<chatHistory, driver, calls, issued, completed, env, extract, route, fn, arg>>

NextAnalytics == GetPrivacyPreservingUserId \/ WithAnalytics

SpecAnalytics == InitAnalytics /\ [][NextAnalytics]_vars

(* getUserAgentInfo on its own *)

UserAgentWords ==
  {EdgPattern, ChromePattern, FirefoxPattern, SafariPattern,
   <<"M", "o", "b", "i", "l", "e">>, <<"A", "n", "d", "r", "o", "i", "d">>,
   <<"i", "P", "h", "o", "n", "e">>, <<"i", "P", "a", "d">>,
   <<"c", "h", "r", "o", "m", "e">>, <<"E", "d", "g", "e">>, <<" ">>}

\* the texts made of at most n of these words
RECURSIVE TextsOf(_)
TextsOf(n) ==
  IF n = 0 THEN {<<>>}
  ELSE TextsOf(n - 1) \cup {t \o w : t \in TextsOf(n - 1), w \in UserAgentWords}

InitUserAgent ==
  /\ Loaded(SequentialEnv)
  /\ fn = "getUserAgentInfo"
  /\ arg \in {Null} \cup {Some(t) : t \in TextsOf(MaxWords)}
  /\ ret = <<>>

GetUserAgentInfo ==
  /\ fn = "getUserAgentInfo"
  /\ ret = <<>>
  /\ ret' = Some(getUserAgentInfo(arg))
  /\ UNCHANGED <<chatHistory, driver, calls, issued, completed, env, extract, route, fn, arg>>

NextUserAgent == GetUserAgentInfo

SpecUserAgent == InitUserAgent /\ [][NextUserAgent]_vars

(* --------------------------- types/model-types.ts ---------------------- *)

\* LLM_MODELS['gemini-1.5-flash-latest'].cost: the prices per 1M tokens, in
\* thousandths of a dollar (0.075, 0.15, 0.30 and 0.60 dollars)
LLM_MODELS ==
  [inputCostPer1MTokens |-> [standard |-> 75, longContext |-> 150],
   outputCostPer1MTokens |-> [standard |-> 300, longContext |-> 600]]

LongContextLimit == 128000

\* long-context pricing from 128000 tokens on
isLongContext_AtLeast(inputTokens) == inputTokens >= LongContextLimit

\* const isLongContext = inputTokens > 128_000
isLongContext(inputTokens) == inputTokens > LongContextLimit

\* calculateLLMCost for that model; the cost is the exact value of
\* (tokens / 1_000_000) * price, in billionths of a dollar
calculateLLMCost(inputTokens, outputTokens) ==
  LET inputCost ==
        inputTokens * (IF isLongContext(inputTokens)
                         THEN LLM_MODELS.inputCostPer1MTokens.longContext
                         ELSE LLM_MODELS.inputCostPer1MTokens.standard)
      outputCost ==
        outputTokens * (IF isLongContext(inputTokens)
                          THEN LLM_MODELS.outputCostPer1MTokens.longContext
                          ELSE LLM_MODELS.outputCostPer1MTokens.standard)
  IN  inputCost + outputCost

\* token counts near 0 and near the limit, and some large ones
InputTokenCounts ==
  (0..TokenSpread)
    \cup ((LongContextLimit - TokenSpread)..(LongContextLimit + TokenSpread))
    \cup {200000, 1000000}

OutputTokenCounts ==
  (0..TokenSpread) \cup {1000, 8192, LongContextLimit, LongContextLimit + 1, 200000}

InitCost ==
  /\ Loaded(SequentialEnv)
  /\ fn = "calculateLLMCost"
  /\ arg \in [inputTokens : InputTokenCounts, outputTokens : OutputTokenCounts]
  /\ ret = <<>>

CalculateLLMCost ==
  /\ fn = "calculateLLMCost"
  /\ ret = <<>>
  /\ ret' = Some(calculateLLMCost(arg.inputTokens, arg.outputTokens))
  /\ UNCHANGED <<chatHistory, driver, calls, issued, completed, env, extract, route, fn, arg>>

NextCost == CalculateLLMCost

SpecCost == InitCost /\ [][NextCost]_vars

(* ------------------- features/chat/hooks/use-chat.ts ------------------- *)

\* Array.prototype.join
RECURSIVE join(_, _)
join(texts, separator) ==
  IF texts = <<>> THEN <<>>
  ELSE IF Len(texts) = 1 THEN texts[1]
  ELSE texts[1] \o separator \o join(Tail(texts), separator)

\* s.indexOf(needle): the first position, counted from 0, or -1
indexOf(s, needle) ==
  IF test(needle, s)
    THEN CHOOSE i \in 0..(Len(s) - Len(needle)) :
           /\ SubSeq(s, i + 1, i + Len(needle)) = needle
           /\ \A j \in 0..(i - 1) : SubSeq(s, j + 1, j + Len(needle)) # needle
    ELSE -1

\* s.substring(start): a start below 0 is 0, a start beyond the end is the end
substringFrom(s, start) ==
  SubSeq(s, (IF start < 0 THEN 0 ELSE IF start > Len(s) THEN Len(s) ELSE start) + 1, Len(s))

truncationIndicator ==
  <<".", ".", ".", "[", "t", "r", "u", "n", "c", "a", "t", "e", "d", "]", ".", ".", ".",
    NL, NL>>

\* fullHistory.substring(fullHistory.length - maxLength + 20)
truncatedTail(fullHistory, maxLength) ==
  substringFrom(fullHistory, Len(fullHistory) - maxLength + 20)

IsUserMessage(msg) == msg.role = "user"

formatChatHistory(messages, maxLength) ==
  LET userMessages == SelectSeq(messages, IsUserMessage)
      formattedMessages == [i \in 1..Len(userMessages) |-> <<NL>> \o userMessages[i].text]
      fullHistory == join(formattedMessages, <<NL, NL>>)
      truncated == truncatedTail(fullHistory, maxLength)
      firstNewlineIndex == indexOf(truncated, <<NL, NL>>)
  IN  IF Len(messages) = 0 THEN <<>>
      ELSE IF Len(userMessages) = 0 THEN <<>>
      ELSE IF Len(fullHistory) <= maxLength THEN fullHistory
      ELSE IF firstNewlineIndex # -1
        THEN truncationIndicator \o substringFrom(truncated, firstNewlineIndex + 2)
      ELSE truncationIndicator \o truncated

ChatTexts ==
  {<<>>, <<"a", "a", "a", "a", "a", "a", "a", "a">>, <<"b", NL, NL, "c">>}

ChatMessages == [role : {"user", "ai"}, text : ChatTexts]

InitHistory ==
  /\ Loaded(SequentialEnv)
  /\ fn = "formatChatHistory"
  /\ arg \in [messages : UNION {[1..n -> ChatMessages] : n \in 0..MaxMessages},
              maxLength : 0..MaxLength]
  /\ ret = <<>>

FormatChatHistory ==
  /\ fn = "formatChatHistory"
  /\ ret = <<>>
  /\ ret' = Some(formatChatHistory(arg.messages, arg.maxLength))
  /\ UNCHANGED <<chatHistory, driver, calls, issued, completed, env, extract, route, fn, arg>>

NextHistory == FormatChatHistory

SpecHistory == InitHistory /\ [][NextHistory]_vars

(* ----------------------- commands/extract-parties.ts ------------------- *)
(* A session is given by what happens to it: http, whether the request to *)
(* the Riksdag API succeeds; votes, the votes the API lists; write,       *)
(* whether fs.writeFileSync succeeds.                                     *)

batchSize == 10

\* Array.prototype.slice, as the set of the positions (from 1) it takes
slice(length, start, end) == (start + 1)..(IF end < length THEN end ELSE length)

\* a batch of eleven sessions
batchOf_Eleven(sessions, i) == slice(Len(sessions), i, i + batchSize + 1)

\* const batch = sessions.slice(i, i + batchSize)
batchOf(sessions, i) == slice(Len(sessions), i, i + batchSize)

\* fetchVotesForPoliticianAndSession: the number of votes returned; every
\* error is caught and gives []
fetchVotesForPoliticianAndSession(session) ==
  IF session.http = "ok" THEN session.votes ELSE 0

\* the callback of batch.map from the arrival of the votes to its return
sessionResult(session) ==
  IF session.write = "ok"
    THEN [votes |-> fetchVotesForPoliticianAndSession(session), success |-> TRUE]
    ELSE [votes |-> 0, success |-> FALSE]

RECURSIVE sumVotes(_, _)
sumVotes(results, positions) ==
  IF positions = {} THEN 0
  ELSE LET k == CHOOSE k \in positions : TRUE
       IN  (IF results[k].success THEN results[k].votes ELSE 0)
             + sumVotes(results, positions \ {k})

SessionKinds == [http : {"ok", "error"}, votes : {2}, write : {"ok", "throws"}]

\* n sessions whose kinds repeat a pattern
SessionLists ==
  {[k \in 1..n |-> pattern[((k - 1) % PatternLength) + 1]] :
     n \in 0..MaxSessions, pattern \in [1..PatternLength -> SessionKinds]}

InitExtract ==
  /\ chatHistory = <<>>
  /\ driver = FALSE
  /\ calls = {}
  /\ issued = 0
  /\ completed = <<>>
  /\ env = SequentialEnv
  /\ fn = "fetchVotesForPoliticianConcurrently"
  /\ arg \in SessionLists
  /\ ret = <<>>
  /\ route = <<>>
  /\ extract = [pc |-> "for", i |-> 0, totalFiles |-> 0, totalVotes |-> 0,
                inFlight |-> {}, batchResults |-> <<>>, started |-> {}, settled |-> {}]

\* the loop takes the next batch and starts the callback of each of its
\* sessions, which runs up to its await of the fetch
StartBatch ==
  /\ fn = "fetchVotesForPoliticianConcurrently"
  /\ extract.pc = "for"
  /\ extract.i < Len(arg)
  /\ extract' = [extract EXCEPT !.pc = "all",
                                !.inFlight = batchOf(arg, extract.i),
                                !.batchResults = <<>>,
                                !.started = @ \cup batchOf(arg, extract.i)]
  /\ UNCHANGED <<chatHistory, driver, calls, issued, completed, env, route, fn, arg, ret>>

\* the fetch of one session settles and its callback runs to its return
SettleSession(k) ==
  /\ fn = "fetchVotesForPoliticianConcurrently"
  /\ extract.pc = "all"
  /\ k \in extract.inFlight
  /\ extract' = [extract EXCEPT
                   !.inFlight = @ \ {k},
                   !.settled = @ \cup {k},
                   !.batchResults =
                     [j \in (DOMAIN extract.batchResults) \cup {k} |->
                        IF j = k THEN sessionResult(arg[k]) ELSE extract.batchResults[j]]]
  /\ UNCHANGED <<chatHistory, driver, calls, issued, completed, env, route, fn, arg, ret>>

\* Promise.all resolves; the results are counted; the loop goes on after a
\* delay when sessions are left
CollectBatch ==
  /\ fn = "fetchVotesForPoliticianConcurrently"
  /\ extract.pc = "all"
  /\ extract.inFlight = {}
  /\ extract' = [extract EXCEPT
                   !.totalFiles = @ + Cardinality({k \in DOMAIN extract.batchResults :
                                                     extract.batchResults[k].success}),
                   !.totalVotes = @ + sumVotes(extract.batchResults,
                                               DOMAIN extract.batchResults),
                   !.pc = IF extract.i + batchSize < Len(arg) THEN "delay" ELSE "for",
                   !.i = IF extract.i + batchSize < Len(arg) THEN @ ELSE @ + batchSize]
  /\ UNCHANGED <<chatHistory, driver, calls, issued, completed, env, route, fn, arg, ret>>

\* the 200 ms between two batches have passed
DelayElapsed ==
  /\ fn = "fetchVotesForPoliticianConcurrently"
  /\ extract.pc = "delay"
  /\ extract' = [extract EXCEPT !.pc = "for", !.i = @ + batchSize]
  /\ UNCHANGED <<chatHistory, driver, calls, issued, completed, env, route, fn, arg, ret>>

\* return { files: totalFiles, votes: totalVotes }
ReturnTotals ==
  /\ fn = "fetchVotesForPoliticianConcurrently"
  /\ extract.pc = "for"
  /\ extract.i >= Len(arg)
  /\ extract' = [extract EXCEPT !.pc = "returned"]
  /\ ret' = Some([files |-> extract.totalFiles, votes |-> extract.totalVotes])
  /\ UNCHANGED <<chatHistory, driver, calls, issued, completed, env, route, fn, arg>>

NextExtract ==
  \/ StartBatch
  \/ \E k \in 1..MaxSessions : SettleSession(k)
  \/ CollectBatch
  \/ DelayElapsed
  \/ ReturnTotals

SpecExtract == InitExtract /\ [][NextExtract]_vars

(* --------------------------- app/api/chat/route.ts --------------------- *)
(* A request goes through the function returned by withAnalytics, which    *)
(* awaits the handler, tracks the call and returns the response.  The chat *)
(* handler calls getGeminiChatResponse(userMessage.text, history): the     *)
(* service is given no distinctId.                                         *)

\* the text of an error message
RECURSIVE messageText(_)
messageText(message) ==
  IF message = <<>> THEN "" ELSE Head(message) \o messageText(Tail(message))

\* a field of the message in the body: its typeof and, for a string, the text
JsString(text) == [type |-> "string", value |-> text]
JsNumber == [type |-> "number", value |-> <<>>]
JsUndefined == [type |-> "undefined", value |-> <<>>]

\* what `await req.json()` finds: a body that is no JSON, the JSON value null,
\* or a value with or without a message
InvalidJson == [kind |-> "invalid", message |-> Null]
NullBody == [kind |-> "null", message |-> Null]
ObjectBody(message) == [kind |-> "object", message |-> message]

SyntaxError == Error(<<"Unexpected end of JSON input">>)
TypeError == Error(<<"Cannot read properties of null (reading 'message')">>)

\* the bodies a client may send with the request that makes call n
Bodies(n) ==
  {InvalidJson, NullBody, ObjectBody(Null)}
    \cup {ObjectBody(Some([text |-> t, history |-> Null])) : t \in {JsUndefined, JsNumber}}
    \cup {ObjectBody(Some([text |-> JsString(t), history |-> h])) :
            t \in Texts(n), h \in Histories}

\* the check that the handler makes first, inverted
validMessage_NoTypeCheck(userMessage) == userMessage # Null

\* `!userMessage || typeof userMessage.text !== 'string'`, negated
validMessage(userMessage) ==
  userMessage # Null /\ userMessage[1].text.type = "string"

InvalidMessageFormat == [status |-> 400, error |-> "Invalid message format"]

\* the catch block of chatHandler: the response and the chat_error event
chatHandlerCatch(error, captureThrows) ==
  [response |->
     [status |-> 500,
      error |-> IF error.isError THEN messageText(error.message)
                ELSE "Failed to process chat request due to an internal error."],
   events |-> trackEvent(Event("chat_error", FALSE, <<>>), captureThrows).emitted]

\* the headers of the requests of this run and the instant they arrive
RouteRequest ==
  [xUserId |-> Some(<<"u", "1">>), cookieUserId |-> Null,
   userAgent |-> Some(ChromePattern), xForwardedFor |-> Null, xRealIp |-> Null,
   cfConnectingIp |-> Null, referer |-> Null, method |-> "POST",
   pathname |-> "/api/chat"]

RouteInstant == [year |-> 2025, month |-> 6, day |-> 1, hour |-> 0]

\* one caller at a time, every body and every failure, no distinctId
RouteEnv ==
  [rich |-> TRUE, inFlight |-> 1, limit |-> MaxCalls, users |-> {""},
   failures |-> {"embedding", "driver", "topic", "segments", "llm", "capture"}]

\* request n on arrival at the function returned by withAnalytics
NewRequest(n, handler, body) ==
  [pc |-> "handler", n |-> n, handler |-> handler, body |-> body,
   handled |-> Null, events |-> <<>>, apiCalls |-> <<>>, captureFailed |-> FALSE,
   response |-> Null, pipelineError |-> Null,
   issuedOnArrival |-> issued, historyOnArrival |-> chatHistory]

InitRoute ==
  /\ chatHistory = <<>>
  /\ driver = FALSE
  /\ calls = {}
  /\ issued = 0
  /\ completed = <<>>
  /\ env = RouteEnv
  /\ extract = <<>>
  /\ fn = "POST"
  /\ arg = <<>>
  /\ ret = <<>>
  /\ route = [NewRequest(0, "", NullBody) EXCEPT !.pc = "returned"]

\* a request arrives: analytics.ts:9-20, the wrapper awaits the handler
Receive ==
  /\ route.pc = "returned"
  /\ route.n < MaxCalls
  /\ \/ \E body \in Bodies(issued + 1) :
          route' = NewRequest(route.n + 1, "chatHandler", body)
     \/ route' = NewRequest(route.n + 1, "other", NullBody)
  /\ UNCHANGED <<chatHistory, driver, calls, issued, completed, env, extract, fn, arg, ret>>

\* chatHandler up to its await of getGeminiChatResponse: route.ts:11-25, and
\* the catch block when reading the body throws
ChatHandlerStarts ==
  /\ route.pc = "handler"
  /\ route.handler = "chatHandler"
  /\ \E captureThrows \in CaptureThrows :
       LET body == route.body
           thrown == IF body.kind = "invalid" THEN Some(SyntaxError)
                     ELSE IF body.kind = "null" THEN Some(TypeError)
                     ELSE Null
           sent == trackEvent(Event("chat_message_sent", TRUE, <<>>), captureThrows)
       IN IF thrown # Null
            THEN LET caught == chatHandlerCatch(thrown[1], captureThrows)
                 IN /\ route' = [route EXCEPT !.pc = "handled",
                                              !.events = @ \o caught.events,
                                              !.handled = Some([throws |-> FALSE,
                                                                response |-> caught.response])]
                    /\ UNCHANGED <<calls, issued>>
          ELSE IF ~validMessage(body.message)
            THEN /\ route' = [route EXCEPT !.pc = "handled",
                                           !.handled = Some([throws |-> FALSE,
                                                             response |-> InvalidMessageFormat])]
                 /\ UNCHANGED <<calls, issued>>
          ELSE /\ route' = [route EXCEPT !.pc = "service", !.events = @ \o sent.emitted]
               /\ issued' = issued + 1
               /\ calls' = calls \cup
                    {NewCall(issued + 1,
                             IF body.message[1].text.type = "string"
                               THEN body.message[1].text.value ELSE <<>>,
                             body.message[1].history, "")}
  /\ UNCHANGED <<chatHistory, driver, completed, env, extract, fn, arg, ret>>

\* chatHandler after getGeminiChatResponse has settled: route.ts:25-44, and the
\* catch block when it rejected
ChatHandlerResumes ==
  /\ route.pc = "service"
  /\ \E c \in calls, captureThrows \in CaptureThrows :
       /\ c.pc = "done"
       /\ calls' = calls \ {c}
       /\ LET generated == trackEvent(Event("chat_response_generated", TRUE, <<>>),
                                      captureThrows)
              caught == chatHandlerCatch(Error(c.result.value), captureThrows)
          IN route' =
               IF c.result.kind = "resolved"
                 THEN [route EXCEPT !.pc = "handled", !.pipelineError = c.error,
                                    !.events = @ \o generated.emitted,
                                    !.handled = Some([throws |-> FALSE,
                                                      response |-> [status |-> 200,
                                                                    error |-> "",
                                                                    message |-> c.result.value]])]
                 ELSE [route EXCEPT !.pc = "handled", !.pipelineError = c.error,
                                    !.events = @ \o caught.events,
                                    !.handled = Some([throws |-> FALSE,
                                                      response |-> caught.response])]
  /\ UNCHANGED <<chatHistory, driver, issued, completed, env, extract, fn, arg, ret>>

\* another handler wrapped by withAnalytics returns a response or throws
OtherHandler ==
  /\ route.pc = "handler"
  /\ route.handler = "other"
  /\ \E handler \in Handlers :
       route' = [route EXCEPT !.pc = "handled", !.handled = Some(handler)]
  /\ UNCHANGED <<chatHistory, driver, calls, issued, completed, env, extract, fn, arg, ret>>

\* the wrapper after the handler: analytics.ts:21-45
TrackApiCall ==
  /\ route.pc = "handled"
  /\ \E captureThrows \in CaptureThrows :
       LET w == withAnalytics(RouteRequest, route.handled[1], RouteInstant, 7, captureThrows)
       IN route' = [route EXCEPT !.pc = "tracked", !.apiCalls = @ \o w.events,
                                 !.captureFailed = captureThrows,
                                 !.response = Some(w.response)]
  /\ UNCHANGED <<chatHistory, driver, calls, issued, completed, env, extract, fn, arg, ret>>

\* `return response`, analytics.ts:47
Respond ==
  /\ route.pc = "tracked"
  /\ route' = [route EXCEPT !.pc = "returned"]
  /\ UNCHANGED <<chatHistory, driver, calls, issued, completed, env, extract, fn, arg, ret>>

NextRoute ==
  \/ Receive
  \/ ChatHandlerStarts
  \/ \E c \in calls : Embedding(c)
  \/ \E c \in calls : OpenSession(c)
  \/ \E c \in calls : TopicLookup(c)
  \/ \E c \in calls : SegmentLookup(c)
  \/ \E c \in calls : StartChat(c)
  \/ \E c \in calls : SendMessageResolves(c)
  \/ \E c \in calls : SendMessageRejects(c)
  \/ \E c \in calls : Catch(c)
  \/ \E c \in calls : Finally(c)
  \/ ChatHandlerResumes
  \/ OtherHandler
  \/ TrackApiCall
  \/ Respond

SpecRoute == InitRoute /\ [][NextRoute]_vars

(* ------------------------- properties of the service ------------------- *)

\* the calls whose prompt has been assembled
PromptBuilt(c) == c.pc = "sendMessage"

\* the parts of fullPrompt after `systemInstruction + "\n\n"`
PromptBody(c) == SubSeq(c.fullPrompt, 4, Len(c.fullPrompt))

\* the client history as it is put in front of the user text
HistoryPart(c) ==
  IF c.history # Null /\ \E i \in 1..Len(c.history[1]) : ~IsSpace(c.history[1][i])
    THEN <<NL, "Recent Chat History:", NL>> \o c.history[1] \o <<NL, NL>>
    ELSE <<>>

\* C1: the system instruction is SYSTEM_INSTRUCTION, and the prompt opens with a
\* 'Context:' block, exactly when the retrieved context is non-null and has a
\* segment or a non-empty topic name; in every other case the instruction is
\* SYSTEM_INSTRUCTION_NO_CONTEXT and the prompt is the bare history + user text.
C1_InstructionByContext ==
  \A c \in calls :
    PromptBuilt(c) =>
      /\ SubSeq(c.fullPrompt, 1, 3) = <<c.systemInstruction, NL, NL>>
      /\ IF /\ c.retrievedContext # Null
            /\ \/ Len(c.retrievedContext[1].segments) >= 1
               \/ c.retrievedContext[1].topicName # <<>>
           THEN /\ c.systemInstruction = SYSTEM_INSTRUCTION
                /\ SubSeq(PromptBody(c), 1, 2) = <<"Context:", NL>>
           ELSE /\ c.systemInstruction = SYSTEM_INSTRUCTION_NO_CONTEXT
                /\ PromptBody(c) = HistoryPart(c) \o c.text

\* a context with no segment and an empty topic name gets the no-context prompt
C1_Witness ==
  \E c \in calls :
    /\ PromptBuilt(c)
    /\ c.retrievedContext # Null
    /\ c.retrievedContext[1].segments = <<>>
    /\ c.retrievedContext[1].topicName = <<>>
    /\ c.systemInstruction = SYSTEM_INSTRUCTION_NO_CONTEXT

\* the user entry and the model entry of exchange i of `completed`
ExchangeEntries(i) ==
  <<[role |-> "user", parts |-> <<[text |-> completed[i].user]>>],
    [role |-> "model", parts |-> <<[text |-> completed[i].model]>>]>>

\* the entries of the exchanges from..Len(completed), oldest first
RECURSIVE EntriesFrom(_)
EntriesFrom(from) ==
  IF from > Len(completed) THEN <<>> ELSE ExchangeEntries(from) \o EntriesFrom(from + 1)

\* C2: chatHistory never holds more than 10 entries, and once more than 5
\* exchanges have completed it is exactly the 5 most recently completed
\* exchanges, oldest first.
C2_RollingWindow ==
  /\ Len(chatHistory) <= 10
  /\ Len(completed) > 5 => chatHistory = EntriesFrom(Len(completed) - 4)

\* more than 5 exchanges completed, call 2 answered before call 1
C2_Witness ==
  /\ Len(completed) > 5
  /\ \E i \in 1..(Len(completed) - 1) :
       /\ completed[i].user = Question(2)
       /\ completed[i + 1].user = Question(1)

\* getContextFromKB has settled for call c
KBSettled(c) == c.pc \in {"prompt", "sendMessage", "catch", "finally", "done"}

\* C3: the lookups are issued topic first, segments second; the segment lookup
\* is issued only after the topic lookup returned a record, and is issued then;
\* with no topic record the function returns null without a segment lookup.
C3_TopicThenSegments ==
  \A c \in calls :
    /\ c.lookups \in {<<>>, <<"topic">>, <<"topic", "segments">>}
    /\ includes(c.lookups, "segments") => c.topicRecords >= 1
    /\ (c.topicRecords >= 1 /\ KBSettled(c)) => c.lookups = <<"topic", "segments">>
    /\ c.topicRecords = 0 =>
         /\ c.lookups = <<"topic">>
         /\ KBSettled(c)
         /\ c.retrievedContext = Null
         /\ c.error # Some(KBError)

\* the topic lookup found nothing and the call went on with a null context
C3_Witness ==
  \E c \in calls :
    /\ c.topicRecords = 0
    /\ c.pc = "sendMessage"
    /\ c.lookups = <<"topic">>

\* C10: a call always resolves, and a call in which the embedding, the
\* retrieval or the LLM call failed resolves with one of the three fixed messages.
C10_GracefulDegradation ==
  \A c \in calls :
    c.pc = "done" =>
      /\ c.result.kind = "resolved"
      /\ c.error # Null =>
           c.result.value \in
             { <<"OpenAI API key is not configured correctly. Please check server logs.">>,
               <<"Could not connect to the knowledge base. Please check server logs.">>,
               <<"Sorry, I encountered an error trying to answer your question. Please try again later.">> }

\* the retrieval failed, every capture threw, and the call resolved all the same
C10_Witness ==
  \E c \in calls :
    /\ c.pc = "done"
    /\ c.error = Some(KBError)
    /\ c.distinctId # ""
    /\ c.events = <<>>
    /\ c.result = Settled("resolved", GENERIC_RESPONSE)

(* ------------------- properties of formatContextForPrompt -------------- *)

\* the lines of a text: the runs of tokens that the line breaks end
RECURSIVE SplitLines(_, _)
SplitLines(text, line) ==
  IF text = <<>> THEN (IF line = <<>> THEN <<>> ELSE <<line>>)
  ELSE IF Head(text) = NL THEN <<line>> \o SplitLines(Tail(text), <<>>)
  ELSE SplitLines(Tail(text), Append(line, Head(text)))

\* the number of line breaks in a text
RECURSIVE Breaks(_)
Breaks(text) ==
  IF text = <<>> THEN 0 ELSE (IF Head(text) = NL THEN 1 ELSE 0) + Breaks(Tail(text))

Formatted == fn = "formatContextForPrompt" /\ ret # <<>>

SegmentsHeader == "Relevant Segments from Documents:"

\* the lines of the output that follow the segments header
LinesAfterHeader ==
  LET lines == SplitLines(ret[1], <<>>)
      h == CHOOSE i \in 1..Len(lines) : lines[i] = <<SegmentsHeader>>
  IN SubSeq(lines, h + 1, Len(lines))

\* the opening of every output: the topic, the description and a blank line
ExpectedOpening ==
  <<"Relevant Topic: ">> \o arg.topicName \o <<NL>>
    \o <<"Description: ">> \o arg.topicDescription \o <<NL>> \o <<NL>>

\* the attribution of segment i, by whether it has a public URL
ExpectedAttribution(i) ==
  LET seg == arg.segments[i]
      page == IF seg.segmentPage = 0 THEN "N/A" ELSE ToString(seg.segmentPage)
  IN IF seg.publicUrl = <<>>
       THEN <<"(Source Document: ">> \o seg.documentPath \o <<", Page: ", page, ")">>
       ELSE <<"(Source URL: ">> \o seg.publicUrl \o <<", Document: ">> \o seg.documentPath
              \o <<", Page: ", page, ")">>

\* the entries of the segments i..n, each numbered with its position
RECURSIVE ExpectedEntries(_)
ExpectedEntries(i) ==
  IF i > Len(arg.segments) THEN <<>>
  ELSE <<"  ", ToString(i), ". Text: \"">> \o arg.segments[i].segmentText \o <<"\" ">>
         \o ExpectedAttribution(i) \o <<NL>> \o ExpectedEntries(i + 1)

\* the line breaks inside the texts of the segments i..n
RECURSIVE TextBreaks(_)
TextBreaks(i) ==
  IF i > Len(arg.segments) THEN 0
  ELSE Breaks(arg.segments[i].segmentText) + TextBreaks(i + 1)

\* C4 as stated: the segments header is there exactly when there is a segment,
\* and it is followed by one line per segment, line i opening with the number i
C4_OneLinePerSegment ==
  Formatted =>
    LET n == Len(arg.segments)
    IN /\ includes(ret[1], SegmentsHeader) <=> n >= 1
       /\ n >= 1 =>
            /\ Len(LinesAfterHeader) = n
            /\ \A i \in 1..n :
                 SubSeq(LinesAfterHeader[i], 1, 3) = <<"  ", ToString(i), ". Text: \"">>

\* C4, amended: the output opens with the topic and description; the segments
\* header is there exactly when there is a segment; the segments follow in input
\* order, numbered 1..n, one entry each ending in a line break, with the
\* 'Source URL' form exactly for a segment that has a publicUrl; an entry takes
\* one line plus one for every line break in the segment's text.
C4_Layout ==
  Formatted =>
    LET n == Len(arg.segments)
        opening == ExpectedOpening
        rest == SubSeq(ret[1], Len(opening) + 1, Len(ret[1]))
    IN /\ SubSeq(ret[1], 1, Len(opening)) = opening
       /\ includes(ret[1], SegmentsHeader) <=> n >= 1
       /\ n = 0 => rest = <<>>
       /\ n >= 1 =>
            /\ rest = <<SegmentsHeader, NL>> \o ExpectedEntries(1)
            /\ Len(LinesAfterHeader) = n + TextBreaks(1)

\* two segments, the first with a URL and a text of two lines, the second with
\* neither
C4_Witness ==
  /\ Formatted
  /\ Len(arg.segments) = 2
  /\ arg.segments[1].publicUrl # <<>>
  /\ Breaks(arg.segments[1].segmentText) = 1
  /\ arg.segments[2].publicUrl = <<>>
  /\ Breaks(arg.segments[2].segmentText) = 0
  /\ Len(LinesAfterHeader) = 3

(* ------------------------ properties of the merge ---------------------- *)

Merged == fn = "mergeContexts" /\ ret # <<>>

\* the indexes of the records that are not null
NonNullAt == {i \in 1..Len(arg) : arg[i] # Null}

\* C5: the merge returns null when every record is null, the empty list
\* included, and a single record when some record is not null.
C5_NullIffAllNull ==
  Merged =>
    /\ NonNullAt = {} => ret[1] = Null
    /\ NonNullAt # {} => ret[1] # Null /\ Len(ret[1]) = 1

\* several records, all null, merged to null
C5_Witness ==
  /\ Merged
  /\ Len(arg) >= 2
  /\ NonNullAt = {}
  /\ ret[1] = Null

\* the key of the claim: the text and the document path
Key(seg) == <<seg.segmentText, seg.documentPath>>

\* the segments of the non-null records of a list, in input order
RECURSIVE InputSegments(_)
InputSegments(records) ==
  IF records = <<>> THEN <<>>
  ELSE (IF Head(records) = Null THEN <<>> ELSE Head(records)[1].segments)
         \o InputSegments(Tail(records))

\* every key of `input` is the key of exactly one segment of `output`
OncePerKey(input, output) ==
  \A i \in 1..Len(input) :
    Cardinality({j \in 1..Len(output) : Key(output[j]) = Key(input[i])}) = 1

\* the list with the records at a and b exchanged
Exchanged(records, a, b) ==
  [i \in 1..Len(records) |->
     IF i = a THEN records[b] ELSE IF i = b THEN records[a] ELSE records[i]]

\* C6: every key of the input is kept exactly once, by the first segment that
\* has it in input order, and the same holds of the input with two records
\* exchanged.
C6_DedupeFirstSeen ==
  (Merged /\ ret[1] # Null) =>
    LET input == InputSegments(arg)
        output == ret[1][1].segments
    IN /\ OncePerKey(input, output)
       /\ \A j \in 1..Len(output) :
            \E i \in 1..Len(input) :
              /\ input[i] = output[j]
              /\ \A h \in 1..(i - 1) : Key(input[h]) # Key(output[j])
       /\ \A a, b \in 1..Len(arg) :
            LET other == mergeContexts(Exchanged(arg, a, b))
            IN /\ other # Null
               /\ OncePerKey(input, other[1].segments)
               /\ Len(other[1].segments) = Len(output)

\* a key met in two records with different scores, and a text met under two paths
C6_Witness ==
  /\ Merged
  /\ Len(arg) = 3
  /\ arg[1] # Null /\ arg[1][1].segments = <<SegB, SegA>>
  /\ arg[2] = Null
  /\ arg[3] # Null /\ arg[3][1].segments = <<SegADup, SegC>>
  /\ ret[1][1].segments = <<SegB, SegA, SegC>>

\* the one record of a list with exactly one record that is not null
OnlyRecord == arg[CHOOSE i \in NonNullAt : TRUE][1]

\* C7 as stated: the merge of a list with exactly one non-null record has that
\* record's topic name and topic description
C7_SingleVerbatim ==
  (Merged /\ Cardinality(NonNullAt) = 1) =>
    /\ ret[1] # Null
    /\ ret[1][1].topicName = OnlyRecord.topicName
    /\ ret[1][1].topicDescription = OnlyRecord.topicDescription

\* C7, amended: it has that record's topic name and description when the record
\* has both, and the placeholder when the record lacks one of them.
C7_SingleVerbatimIfPresent ==
  (Merged /\ Cardinality(NonNullAt) = 1) =>
    /\ ret[1] # Null
    /\ IF OnlyRecord.topicName # <<>> /\ OnlyRecord.topicDescription # <<>>
         THEN /\ ret[1][1].topicName = OnlyRecord.topicName
              /\ ret[1][1].topicDescription = OnlyRecord.topicDescription
         ELSE /\ ret[1][1].topicName = <<"aggregated">>
              /\ ret[1][1].topicDescription = <<"aggregated">>

\* one record with a name and a description between two nulls
C7_Witness ==
  /\ Merged
  /\ Len(arg) = 3
  /\ NonNullAt = {2}
  /\ arg[2][1].topicName = <<"Vard">>
  /\ ret[1][1].topicName = <<"Vard">>
  /\ ret[1][1].topicDescription = <<"Sjukvard">>

\* the indexes of the records with a topic name and a topic description
CompleteAt ==
  {i \in NonNullAt : arg[i][1].topicName # <<>> /\ arg[i][1].topicDescription # <<>>}

\* C8: the topic of the merged record is that of the first record with both a
\* name and a description, and the placeholder when no record has both.
C8_RepresentativeTopic ==
  (Merged /\ ret[1] # Null) =>
    IF CompleteAt # {}
      THEN LET first == CHOOSE i \in CompleteAt : \A j \in CompleteAt : i <= j
           IN /\ ret[1][1].topicName = arg[first][1].topicName
              /\ ret[1][1].topicDescription = arg[first][1].topicDescription
      ELSE /\ ret[1][1].topicName = <<"aggregated">>
           /\ ret[1][1].topicDescription = <<"aggregated">>

\* the first record lacks a description, the third is the first with both
C8_Witness ==
  /\ Merged
  /\ Len(arg) = 3
  /\ NonNullAt = {1, 2, 3}
  /\ CompleteAt = {3}
  /\ ret[1][1].topicName = arg[3][1].topicName
  /\ ret[1][1].topicName # arg[1][1].topicName

(* -------------------- properties of the query expansion ---------------- *)

Expanded == fn = "generateQueries" /\ ret # <<>>

\* the reply holds, from its first "[" to its last "]", one or more strings
HoldsQueries(reply) ==
  \E i, j \in 1..Len(reply) :
    /\ reply[i] = "[" /\ \A h \in 1..(i - 1) : reply[h] # "["
    /\ reply[j] = "]" /\ \A h \in (j + 1)..Len(reply) : reply[h] # "]"
    /\ i + 1 < j
    /\ \A h \in (i + 1)..(j - 1) : reply[h] = "\"q\""

\* C9: the query list is never empty, and it holds the user message whenever
\* the reply does not parse.
C9_FallbackHasUserMessage ==
  Expanded =>
    /\ ret[1] # <<>>
    /\ ~HoldsQueries(arg.reply) => \E i \in 1..Len(ret[1]) : ret[1][i] = arg.userMessage

\* brackets found but not an array of strings: the fallback is the user message
C9_Witness ==
  /\ Expanded
  /\ arg.reply = <<"x", "[", "\"q\"", "x", "]">>
  /\ ret[1] = <<arg.userMessage>>

(* ----------------------- properties of the middleware ------------------ *)

\* both requests of the state have been given their identifier
Identified == fn = "getPrivacyPreservingUserId" /\ ret # <<>>

\* both requests of the state have gone through withAnalytics
Wrapped == fn = "withAnalytics" /\ ret # <<>>

Sides == {"a", "b"}

\* a header or cookie that the request has, with a value that is not ''
NonEmpty(v) == v # <<>> /\ Len(v[1]) > 0

\* an identifier of the derived kind
Derived(id) == Len(id) >= 8 /\ \A i \in 1..8 : id[i] = SessionPrefix[i]

\* C11 as stated: getPrivacyPreservingUserId returns a non-empty x-user-id
\* header unchanged; otherwise, when the request has a user_id cookie, the
\* value of the cookie unchanged; and a derived 'session_' identifier only
\* when the request has neither.
C11_ExplicitIdPreferred ==
  Identified =>
    \A s \in Sides :
      LET req == arg[s].req
          id == ret[1][s]
      IN  /\ NonEmpty(req.xUserId) => id = req.xUserId[1]
          /\ ~NonEmpty(req.xUserId) /\ req.cookieUserId # <<>> => id = req.cookieUserId[1]
          /\ Derived(id) <=> ~NonEmpty(req.xUserId) /\ req.cookieUserId = <<>>

\* C11, amended: getPrivacyPreservingUserId returns a non-empty x-user-id
\* header unchanged; otherwise a non-empty user_id cookie unchanged; and a
\* derived 'session_' identifier exactly when the request has neither a
\* non-empty header nor a non-empty cookie (a cookie with the value '' is
\* treated as no cookie).
C11_NonEmptyExplicitIdPreferred ==
  Identified =>
    \A s \in Sides :
      LET req == arg[s].req
          id == ret[1][s]
      IN  /\ NonEmpty(req.xUserId) => id = req.xUserId[1]
          /\ ~NonEmpty(req.xUserId) /\ NonEmpty(req.cookieUserId) => id = req.cookieUserId[1]
          /\ Derived(id) <=> ~NonEmpty(req.xUserId) /\ ~NonEmpty(req.cookieUserId)

\* a request with an empty x-user-id header and a cookie got the cookie's value
C11_Witness ==
  /\ Identified
  /\ arg.a.req.xUserId = <<<<>>>>
  /\ NonEmpty(arg.a.req.cookieUserId)
  /\ ret[1].a = arg.a.req.cookieUserId[1]

\* the request carries no identifier of its own
NoExplicitId(req) == ~NonEmpty(req.xUserId) /\ ~NonEmpty(req.cookieUserId)

SameDate(m, n) == m.year = n.year /\ m.month = n.month /\ m.day = n.day

LowerHex ==
  {"0", "1", "2", "3", "4", "5", "6", "7", "8", "9", "a", "b", "c", "d", "e", "f"}

\* 'session_' followed by 16 lowercase hexadecimal characters
SessionForm(id) ==
  /\ Len(id) = 24
  /\ SubSeq(id, 1, 8) = <<"s", "e", "s", "s", "i", "o", "n", "_">>
  /\ \A i \in 9..24 : id[i] \in LowerHex

\* C12: for requests without an explicit user id the identifier is 'session_'
\* followed by 16 lowercase hexadecimal characters, and two requests with the
\* same User-Agent on the same UTC date get the same identifier.
C12_SessionIdByAgentAndDate ==
  Identified =>
    /\ \A s \in Sides : NoExplicitId(arg[s].req) => SessionForm(ret[1][s])
    /\ ( /\ NoExplicitId(arg.a.req) /\ NoExplicitId(arg.b.req)
         /\ arg.a.req.userAgent = arg.b.req.userAgent
         /\ SameDate(arg.a.now, arg.b.now) )
       => ret[1].a = ret[1].b

\* the same User-Agent at two hours of one day got one derived identifier
C12_Witness ==
  /\ Identified
  /\ NoExplicitId(arg.a.req) /\ arg.b.req = arg.a.req
  /\ NonEmpty(arg.a.req.userAgent)
  /\ SameDate(arg.a.now, arg.b.now) /\ arg.a.now.hour # arg.b.now.hour
  /\ SessionForm(ret[1].a) /\ ret[1].a = ret[1].b

\* the request without its address headers
WithoutAddresses(req) ==
  [req EXCEPT !.xForwardedFor = <<>>, !.xRealIp = <<>>, !.cfConnectingIp = <<>>]

\* the two requests of the state differ in their address headers at most
SameButAddresses ==
  /\ arg.a.now = arg.b.now
  /\ WithoutAddresses(arg.a.req) = WithoutAddresses(arg.b.req)

\* C13: two requests that differ only in x-forwarded-for, x-real-ip or
\* cf-connecting-ip get the same identifier, and withAnalytics gives the same
\* api_call event to the tracking for both.
C13_AddressesIgnored ==
  /\ Identified /\ SameButAddresses => ret[1].a = ret[1].b
  /\ Wrapped /\ SameButAddresses => ret[1].a.events = ret[1].b.events

\* two requests with different address headers and no identifier of their own
\* were tracked with the same event
C13_Witness ==
  /\ Wrapped /\ SameButAddresses
  /\ NoExplicitId(arg.a.req)
  /\ arg.a.req.xForwardedFor # arg.b.req.xForwardedFor
  /\ arg.a.req.xRealIp # arg.b.req.xRealIp
  /\ arg.a.req.cfConnectingIp # arg.b.req.cfConnectingIp
  /\ ret[1].a.events # <<>>
  /\ ret[1].a.events = ret[1].b.events

\* C14 as stated: without an explicit user id, the same User-Agent on two
\* different UTC dates gets different identifiers, and different User-Agents
\* on the same date get different identifiers.
C14_RotatesAndSeparates ==
  Identified /\ NoExplicitId(arg.a.req) /\ NoExplicitId(arg.b.req) =>
    /\ arg.a.req.userAgent = arg.b.req.userAgent /\ ~SameDate(arg.a.now, arg.b.now)
         => ret[1].a # ret[1].b
    /\ arg.a.req.userAgent # arg.b.req.userAgent /\ SameDate(arg.a.now, arg.b.now)
         => ret[1].a # ret[1].b

\* the User-Agent that counts: a missing or empty one counts as 'unknown'
EffectiveAgent(req) ==
  IF NonEmpty(req.userAgent) THEN req.userAgent[1] ELSE <<"u", "n", "k", "n", "o", "w", "n">>

\* C14, amended: without an explicit user id, the same User-Agent on two
\* different UTC dates gets different identifiers, and on the same date two
\* User-Agents get different identifiers when they differ after a missing or
\* empty User-Agent is replaced by 'unknown' (a request without a User-Agent
\* and a request with the User-Agent 'unknown' share their identifier).
C14_RotatesAndSeparatesEffective ==
  Identified /\ NoExplicitId(arg.a.req) /\ NoExplicitId(arg.b.req) =>
    /\ EffectiveAgent(arg.a.req) = EffectiveAgent(arg.b.req)
         /\ ~SameDate(arg.a.now, arg.b.now)
         => ret[1].a # ret[1].b
    /\ EffectiveAgent(arg.a.req) # EffectiveAgent(arg.b.req)
         /\ SameDate(arg.a.now, arg.b.now)
         => ret[1].a # ret[1].b

\* one User-Agent on two days got two derived identifiers
C14_Witness ==
  /\ Identified
  /\ NoExplicitId(arg.a.req) /\ arg.b.req = arg.a.req
  /\ NonEmpty(arg.a.req.userAgent)
  /\ arg.a.now.day # arg.b.now.day
  /\ SessionForm(ret[1].a) /\ SessionForm(ret[1].b)
  /\ ret[1].a # ret[1].b

(* ----------------------- properties of getUserAgentInfo ---------------- *)

\* the text p occurs in the text s
Occurs(p, s) ==
  \E i \in 0..(Len(s) - Len(p)) : \A j \in 1..Len(p) : s[i + j] = p[j]

\* the browser of the first rule that matches, in the order edge, chrome,
\* firefox, safari
FirstRule(s) ==
  CASE Occurs(<<"E", "d", "g", "/">>, s) -> "edge"
    [] ~Occurs(<<"E", "d", "g", "/">>, s) /\ Occurs(<<"C", "h", "r", "o", "m", "e">>, s)
         -> "chrome"
    [] ~Occurs(<<"E", "d", "g", "/">>, s) /\ ~Occurs(<<"C", "h", "r", "o", "m", "e">>, s)
         /\ Occurs(<<"F", "i", "r", "e", "f", "o", "x">>, s) -> "firefox"
    [] ~Occurs(<<"E", "d", "g", "/">>, s) /\ ~Occurs(<<"C", "h", "r", "o", "m", "e">>, s)
         /\ ~Occurs(<<"F", "i", "r", "e", "f", "o", "x">>, s)
         /\ Occurs(<<"S", "a", "f", "a", "r", "i">>, s) -> "safari"
    [] OTHER -> "unknown"

MobileMarks ==
  {<<"M", "o", "b", "i", "l", "e">>, <<"A", "n", "d", "r", "o", "i", "d">>,
   <<"i", "P", "h", "o", "n", "e">>, <<"i", "P", "a", "d">>}

\* C15: getUserAgentInfo returns only a browser and a mobile flag: ('unknown',
\* false) for a null or empty User-Agent; otherwise the browser of the first
\* matching rule in the order edge, chrome, firefox, safari ('unknown' when no
\* rule matches), and mobile exactly when Mobile, Android, iPhone or iPad
\* occurs in the User-Agent.
C15_CoarseUserAgentInfo ==
  fn = "getUserAgentInfo" /\ ret # <<>> =>
    /\ DOMAIN ret[1] = {"browser", "mobile"}
    /\ IF arg = <<>> \/ arg[1] = <<>>
         THEN ret[1].browser = "unknown" /\ ret[1].mobile = FALSE
         ELSE /\ ret[1].browser = FirstRule(arg[1])
              /\ ret[1].mobile <=> \E mark \in MobileMarks : Occurs(mark, arg[1])

\* a mobile User-Agent with Edg/, Chrome and Safari in it was found to be edge
C15_Witness ==
  /\ fn = "getUserAgentInfo" /\ ret # <<>> /\ arg # <<>>
  /\ Occurs(<<"C", "h", "r", "o", "m", "e">>, arg[1])
  /\ Occurs(<<"E", "d", "g", "/">>, arg[1])
  /\ Occurs(<<"i", "P", "a", "d">>, arg[1])
  /\ ret[1] = [browser |-> "edge", mobile |-> TRUE]

(* ----------------------- properties of calculateLLMCost ---------------- *)

\* C16: up to 128000 input tokens the cost is that of the standard prices for
\* the input and the output, above 128000 input tokens that of the
\* long-context prices for both, whatever the number of output tokens; no
\* tokens cost 0.  Prices are in billionths of a dollar per token.
C16_LongContextAbove128k ==
  fn = "calculateLLMCost" /\ ret # <<>> =>
    /\ arg.inputTokens <= 128000
         => ret[1] = 75 * arg.inputTokens + 300 * arg.outputTokens
    /\ arg.inputTokens >= 128001
         => ret[1] = 150 * arg.inputTokens + 600 * arg.outputTokens
    /\ arg.inputTokens = 0 /\ arg.outputTokens = 0 => ret[1] = 0

\* 128000 input tokens with more than 128000 output tokens were charged the
\* standard prices
C16_Witness ==
  /\ fn = "calculateLLMCost" /\ ret # <<>>
  /\ arg.inputTokens = 128000 /\ arg.outputTokens = 128001
  /\ ret[1] = 75 * 128000 + 300 * 128001

(* ----------------------- properties of formatChatHistory --------------- *)

\* the texts of the user messages, each after a line break, two line breaks
\* between them
RECURSIVE FullHistory(_)
FullHistory(messages) ==
  IF messages = <<>> THEN <<>>
  ELSE LET rest == FullHistory(Tail(messages))
       IN  IF Head(messages).role # "user" THEN rest
           ELSE IF \A i \in 2..Len(messages) : messages[i].role # "user"
             THEN <<"\n">> \o Head(messages).text
           ELSE <<"\n">> \o Head(messages).text \o <<"\n", "\n">> \o rest

Indicator ==
  <<".", ".", ".", "[", "t", "r", "u", "n", "c", "a", "t", "e", "d", "]", ".", ".", ".",
    "\n", "\n">>

\* C17 as stated: the string returned by formatChatHistory has at most
\* maxLength characters; it is the full history when that fits, and otherwise
\* the truncation indicator followed by a suffix of the full history.
C17_TruncatedToMaxLength ==
  fn = "formatChatHistory" /\ ret # <<>> =>
    LET full == FullHistory(arg.messages)
    IN  /\ Len(ret[1]) <= arg.maxLength
        /\ Len(full) <= arg.maxLength => ret[1] = full
        /\ Len(full) > arg.maxLength
             => \E k \in 0..Len(full) :
                  ret[1] = Indicator \o SubSeq(full, k + 1, Len(full))

(* --------------- properties of fetchVotesForPoliticianConcurrently ----- *)

\* the batch of ten that the session at position k belongs to
BatchNumber(k) == (k - 1) \div 10

\* at most 10 fetches are in flight; the sessions of a batch are started
\* together; no session is started before all sessions of the batches before
\* its own have settled
InBatchesOfTen ==
  fn = "fetchVotesForPoliticianConcurrently" =>
    /\ extract.inFlight = extract.started \ extract.settled
    /\ Cardinality(extract.started \ extract.settled) <= 10
    /\ \A k \in extract.started :
         \A j \in 1..Len(arg) :
           /\ BatchNumber(j) = BatchNumber(k) => j \in extract.started
           /\ BatchNumber(j) < BatchNumber(k) => j \in extract.settled

EntryText(i) == chatHistory[i].parts[1].text

\* C19: under every interleaving of the calls chatHistory has an even length;
\* the entries at the even indexes 0, 2, ... (the positions 1, 3, ... here)
\* have the role 'user', the others the role 'model'; and every model entry is
\* the answer given to the request of the user entry in front of it.
C19_UserModelPairs ==
  /\ Len(chatHistory) % 2 = 0
  /\ \A i \in 1..Len(chatHistory) :
       chatHistory[i].role = IF i % 2 = 1 THEN "user" ELSE "model"
  /\ \A k \in 1..(Len(chatHistory) \div 2) :
       \E n \in 1..issued :
         /\ EntryText(2 * k - 1) = Question(n)
         /\ EntryText(2 * k) = Reply(n)

\* two calls are in flight, the window has been trimmed, and the answers came
\* back in another order than the questions were asked
C19_Witness ==
  /\ Cardinality(calls) = 2
  /\ Len(completed) > 5
  /\ Len(chatHistory) = 10
  /\ \E i \in 1..4 : \E m, n \in 1..issued :
       /\ m > n
       /\ EntryText(2 * i - 1) = Question(m)
       /\ EntryText(2 * i + 1) = Question(n)
       /\ EntryText(2 * i + 2) = Reply(n)

\* the step gives a call the answer of the LLM
AnswerStep ==
  \E c \in calls : \E d \in calls' :
    /\ d.n = c.n
    /\ c.pc = "sendMessage" /\ c.error = <<>>
    /\ d.pc = "finally" /\ d.error = <<>>
    /\ d.returned = [kind |-> "resolved", value |-> Reply(c.n)]

\* the call has failed: an error was thrown in its try block
Failed(c) == c.error # <<>>

\* C20: chatHistory changes only in the step that gives a call the answer of
\* the LLM, and a call in which the embedding, the retrieval or the LLM call
\* threw never takes that step: its question and the error text returned to
\* its caller are not in chatHistory.
C20_FailedCallKeepsHistory ==
  /\ [][chatHistory' # chatHistory => AnswerStep]_vars
  /\ [](\A c \in calls :
          Failed(c) =>
            /\ c.returned.value # Reply(c.n)
            /\ \A i \in 1..Len(chatHistory) :
                 /\ EntryText(i) \notin ErrorResponses
                 /\ c.returned.kind = "resolved" => EntryText(i) # c.returned.value
                 /\ c.text = Question(c.n) => EntryText(i) # c.text)

\* the second call failed at the LLM and was answered with the error text; the
\* history still holds the exchange of the first call only
C20_Witness ==
  /\ Len(completed) = 1
  /\ \E c \in calls :
       /\ c.n = 2 /\ c.pc = "done"
       /\ c.text = <<"q2">>
       /\ c.error # <<>> /\ c.error[1] = LLMError
       /\ c.result.kind = "resolved" /\ c.result.value \in ErrorResponses
       /\ Len(chatHistory) = 2
       /\ EntryText(1) = <<"q1">> /\ EntryText(2) = <<"a1">>

(* ----------------- properties of the history across users -------------- *)

\* the texts of the history given to model.startChat for a call
SentTexts(c) == {c.sentHistory[i].parts[1].text : i \in 1..Len(c.sentHistory)}

\* C21: the history handed to the LLM for a call holds no question and no
\* answer of a call made for another user (another distinctId).
C21_HistoryOfSameUser ==
  \A c, d \in calls :
    c.distinctId # d.distinctId =>
      SentTexts(d) \cap {Question(c.n), Reply(c.n)} = {}

(* ------------------- properties of the database session ---------------- *)

\* getContextFromKB of the call has finished: returned or thrown
RetrievalOver(c) == c.pc \notin {"embedding", "session", "topic", "segments"}

\* C22: a session opened by getContextFromKB is closed, and closed once, when
\* the function has finished, whether it returned a context, returned null
\* because no topic matched, or threw; and every opened session is closed in
\* the end.
C22_SessionClosedOnce ==
  /\ [](\A c \in calls :
          /\ c.closes <= 1
          /\ c.closes = 1 <=> c.session = "closed"
          /\ c.session = "open" => c.pc \in {"topic", "segments"}
          /\ (RetrievalOver(c) /\ c.lookups # <<>>) => c.closes = 1
          /\ c.retrievedContext # Null => c.closes = 1
          /\ (c.pc = "prompt" /\ c.retrievedContext = Null) => c.closes = 1
          /\ c.error = Some(KBError) => c.closes = 1)
  /\ \A n \in 1..MaxCalls :
       (\E c \in calls : c.n = n /\ c.session = "open")
         ~> (\E c \in calls : c.n = n /\ c.closes = 1)

\* the segment query of the second call threw: the function rejected with the
\* error of its catch block and the session is closed
C22_Witness ==
  \E c \in calls :
    /\ c.n = 2
    /\ c.lookups = <<"topic", "segments">>
    /\ c.error = Some(KBError)
    /\ c.session = "closed" /\ c.closes = 1

(* ---------------------- properties of the tracking --------------------- *)

\* the chat_interaction events among the events of a call
Interactions(c) == SelectSeq(c.events, LAMBDA e : e.name = "chat_interaction")

\* the chat_interaction event of a finished call
InteractionOf(c) ==
  [name |-> "chat_interaction",
   success |-> c.result = Settled("resolved", Reply(c.n)),
   aiResponse |-> c.result.value,
   retrieval_success |-> c.retrievedContext # Null]

\* a call without a distinctId tracks nothing
Untracked(c) == c.distinctId = "" => c.events = <<>>

\* C25 as stated: a finished call with a distinctId has exactly one
\* chat_interaction event, the last of its events, with success true exactly
\* when the answer of the LLM was returned, aiResponse the string returned and
\* retrieval_success true exactly when a context was retrieved; a call without
\* a distinctId has no events.
C25_OneChatInteraction ==
  \A c \in calls :
    /\ Untracked(c)
    /\ (c.pc = "done" /\ c.distinctId # "") =>
         /\ Interactions(c) = <<InteractionOf(c)>>
         /\ c.events[Len(c.events)] = InteractionOf(c)

\* C25 amended: the same when client.capture does not throw for the event;
\* when it throws, trackEvent swallows the error and the call has no
\* chat_interaction event.  Before the finally block there is none.
C25_OneChatInteractionCaptured ==
  \A c \in calls :
    /\ Untracked(c)
    /\ c.pc # "done" => Interactions(c) = <<>>
    /\ (c.pc = "done" /\ c.distinctId # "") =>
         /\ c.result.kind = "resolved"
         /\ IF c.captureFailed
              THEN Interactions(c) = <<>>
              ELSE /\ Interactions(c) = <<InteractionOf(c)>>
                   /\ c.events[Len(c.events)] = InteractionOf(c)

\* the LLM call of the second call failed after a context was retrieved, and
\* the failure is the last event of the call
C25_Witness ==
  \E c \in calls :
    /\ c.n = 2 /\ c.pc = "done" /\ c.distinctId = "u1"
    /\ c.error = Some(LLMError)
    /\ c.retrievedContext # Null
    /\ Len(c.events) > 2
    /\ c.events[Len(c.events)] =
         [name |-> "chat_interaction", success |-> FALSE,
          aiResponse |-> GENERIC_RESPONSE, retrieval_success |-> TRUE]

(* ------------------------ properties of the route ---------------------- *)

\* the handler of the request has finished
HandlerOver == route.n > 0 /\ route.pc \in {"handled", "tracked", "returned"}

\* the wrapper has tracked the request
Tracked == route.n > 0 /\ route.pc \in {"tracked", "returned"}

\* what the wrapper does whatever the capture: nothing is tracked before the
\* handler has finished, the response is the handler's or the 500 response
\* when it threw, and an api_call event has the status of that response
WrapsHandler ==
  /\ ~Tracked => route.apiCalls = <<>> /\ route.response = Null
  /\ Tracked =>
       /\ route.response # Null
       /\ route.handled[1].throws => route.response[1] = InternalServerError
       /\ ~route.handled[1].throws => route.response[1] = route.handled[1].response
       /\ \A i \in 1..Len(route.apiCalls) :
            /\ route.apiCalls[i].name = "api_call"
            /\ route.apiCalls[i].status_code = route.response[1].status

\* C23 as stated: withAnalytics records exactly one api_call event per
\* request, after the handler has finished and before the response is
\* returned, with the status code of the response returned; when the handler
\* throws the response is the 500 'Internal Server Error' response and the
\* status recorded is 500.
C23_OneApiCall ==
  /\ WrapsHandler
  /\ Tracked => Len(route.apiCalls) = 1

\* C23 amended: the same when client.capture does not throw; when it throws,
\* trackEvent swallows the error, no api_call event is recorded and the
\* response is returned all the same.
C23_OneApiCallCaptured ==
  /\ WrapsHandler
  /\ Tracked => Len(route.apiCalls) = IF route.captureFailed THEN 0 ELSE 1

\* the handler threw; the 500 response was returned and tracked with 500
C23_Witness ==
  /\ route.pc = "returned"
  /\ route.handled # Null /\ route.handled[1].throws
  /\ route.response = Some(InternalServerError)
  /\ Len(route.apiCalls) = 1
  /\ route.apiCalls[1].status_code = 500

\* the body is a JSON value whose message is missing or has a text that is
\* no string
NoMessageOrText(body) ==
  body.kind = "object" /\ (body.message = Null \/ body.message[1].text.type # "string")

\* the request has done no work: no call of getGeminiChatResponse, no
\* chat_message_sent or chat_response_generated event, chatHistory as it was
NoWork ==
  /\ calls = {}
  /\ issued = route.issuedOnArrival
  /\ chatHistory = route.historyOnArrival
  /\ \A i \in 1..Len(route.events) :
       route.events[i].name \notin {"chat_message_sent", "chat_response_generated"}

\* the response of the handler, once it has finished, is r
Responds(r) ==
  /\ HandlerOver => route.handled[1] = [throws |-> FALSE, response |-> r]
  /\ route.pc = "returned" => route.response = Some(r)

\* C24 as stated: for a body with no message (the body null included) or with
\* a message whose text is no string, chatHandler responds 400 'Invalid
\* message format' and does no work.
C24_MalformedRejected ==
  (route.handler = "chatHandler"
     /\ (route.body.kind = "null" \/ NoMessageOrText(route.body))) =>
    NoWork /\ Responds(InvalidMessageFormat)

\* C24 amended: so it is for a body other than null; for the body null reading
\* body.message throws, and the handler responds 500 with the message of the
\* TypeError, still without any work.
C24_MalformedValueRejected ==
  /\ (route.handler = "chatHandler" /\ NoMessageOrText(route.body)) =>
       NoWork /\ Responds(InvalidMessageFormat)
  /\ (route.handler = "chatHandler" /\ route.body.kind = "null") =>
       NoWork /\ Responds([status |-> 500, error |-> messageText(TypeError.message)])

\* after an answered request, a request whose message has a number as text
\* was answered 400 and the history is the one of the first request
C24_Witness ==
  /\ route.pc = "returned" /\ route.n = 2
  /\ route.handler = "chatHandler"
  /\ route.body = ObjectBody(Some([text |-> JsNumber, history |-> Null]))
  /\ route.response = Some(InvalidMessageFormat)
  /\ Len(chatHistory) = 2 /\ issued = 1

\* C26: a request handled by chatHandler gets a 200 response and a
\* chat_response_generated event only when no step of the pipeline threw in
\* its call of getGeminiChatResponse; when one threw, the response is not 200.
C26_SuccessOnlyWithoutError ==
  (route.handler = "chatHandler" /\ HandlerOver /\ route.pipelineError # Null) =>
    /\ route.handled[1].response.status # 200
    /\ \A i \in 1..Len(route.events) : route.events[i].name # "chat_response_generated"

====
